---- MODULE Spec2Model ----
(***************************************************************************)
(* Model of the file copy/move utility (file_operations.c/.h).             *)
(*                                                                         *)
(* A path is a C string, modelled as a sequence of one-character strings.  *)
(* The file system maps resolved paths (sequences of components) to        *)
(* nodes.  Every library function is an operator that threads a "world"    *)
(* record w = [fs, xdev, ev, rd, rdFail]: the file system, whether the     *)
(* top-level directory "d" is a mount point of another device, the log of  *)
(* system calls made so far, the number of read() calls made so far, and   *)
(* the index of the read() call that fails with EIO (0: none).  Further    *)
(* fields: asc (order of readdir), short (most bytes one read() returns),  *)
(* schar (plain char is signed in this build), now (the clock) and stats   *)
(* (the CopyStats block).                                                  *)
(***************************************************************************)
EXTENDS Integers, Sequences, FiniteSets, TLC

\* ------------------------------------------------------------------------
\* Program constants (file_operations.h)
\* ------------------------------------------------------------------------
BUFFER_SIZE == 8192
SUCCESS == 0
ERROR_FILE_OPEN == -1
ERROR_FILE_READ == -2
ERROR_FILE_WRITE == -3
ERROR_DIR_CREATE == -4
ERROR_DIR_OPEN == -5
ERROR_MOVE_FAILED == -7
ERROR_FILES_DIFFER == -8

\* mode given to open(O_CREAT) and to mkdir()
MODE_FILE_CREATE == 420
MODE_DIR_CREATE == 493

\* ------------------------------------------------------------------------
\* Bounds of the model
\* ------------------------------------------------------------------------
\* a read fault can be injected at the 1st .. MaxRdFail-th read() of a call
MaxRdFail == 3
\* longest path, in components, the file system accepts (PATH_MAX, scaled)
MaxDepth == 4
\* longest pattern and longest file name given to match_pattern
MaxPatLen == 3
MaxNameLen == 2
\* longest pattern array given to should_copy_file
MaxPatterns == 2

\* ------------------------------------------------------------------------
\* Paths
\* ------------------------------------------------------------------------
Min(a, b) == IF a < b THEN a ELSE b

\* sequencing: f maps the one result of a step to the result of the rest
Bind(f) == CHOOSE y \in {g[CHOOSE x \in DOMAIN g : TRUE] : g \in {f}} : TRUE

RECURSIVE SplitPath(_, _, _)
\* the components of a path string, as the kernel's path walk sees them:
\* runs of '/' separate components, empty components do not exist
SplitPath(s, cur, acc) ==
    IF s = <<>> THEN (IF cur = <<>> THEN acc ELSE Append(acc, cur))
    ELSE IF Head(s) = "/"
         THEN SplitPath(Tail(s), <<>>, IF cur = <<>> THEN acc ELSE Append(acc, cur))
         ELSE SplitPath(Tail(s), Append(cur, Head(s)), acc)

Key(s) == SplitPath(s, <<>>, <<>>)

TrailingSlash(s) == s # <<>> /\ s[Len(s)] = "/"

Parent(k) == SubSeq(k, 1, Len(k) - 1)

IsPrefix(a, b) == Len(a) <= Len(b) /\ SubSeq(b, 1, Len(a)) = a

RECURSIVE LastSlash(_, _)
\* strrchr(s, '/'): index of the last '/' at or before position i, 0 if none
LastSlash(s, i) == IF i = 0 THEN 0 ELSE IF s[i] = "/" THEN i ELSE LastSlash(s, i - 1)

\* the file name the code extracts from a source path
Basename(s) ==
    LET i == LastSlash(s, Len(s))
    IN IF i = 0 THEN s ELSE SubSeq(s, i + 1, Len(s))

\* snprintf(buf, MAX_PATH, "%s/%s", a, b)
JoinPath(a, b) == a \o <<"/">> \o b

\* ------------------------------------------------------------------------
\* File system and system calls
\* ------------------------------------------------------------------------
FileNode(data, mode) == [k |-> "file", data |-> data, mode |-> mode]
DirNode == [k |-> "dir", data |-> <<>>, mode |-> MODE_DIR_CREATE]

\* a directory with mode 0555: its entries cannot be added, removed or renamed
ReadOnlyDir == [k |-> "dir", data |-> <<>>, mode |-> 365]

\* the owner's write bit (0200) of the node at k is set; the caller owns
\* every node and is not the superuser
Writable(fs, k) == (fs[k].mode \div 128) % 2 = 1

\* a symbolic link to the directory with key k; links occur only in the
\* trees remove_directory is run on
LinkNode(k) == [k |-> "link", data |-> k, mode |-> 511]

RECURSIVE Walk(_, _, _, _)
\* the key a path leads to from the directory cur: a symbolic link met on
\* the way is replaced by its target, the last component only when last
Walk(fs, cur, rest, last) ==
    IF rest = <<>> THEN cur
    ELSE LET nxt == Append(cur, Head(rest))
         IN IF /\ nxt \in DOMAIN fs
               /\ fs[nxt].k = "link"
               /\ (last \/ Tail(rest) # <<>>)
            THEN Walk(fs, fs[nxt].data, Tail(rest), last)
            ELSE Walk(fs, nxt, Tail(rest), last)

\* the node stat() and opendir() reach
Follow(fs, k) == Walk(fs, <<>>, k, TRUE)

\* the node unlink(), rmdir() and lstat() reach
NoFollow(fs, k) == Walk(fs, <<>>, k, FALSE)

\* path resolution of stat(): the path names an existing node
Resolves(fs, s) ==
    /\ s # <<>>
    /\ Key(s) \in DOMAIN fs
    /\ (TrailingSlash(s) => fs[Key(s)].k = "dir")

Dev(w, k) == IF w.xdev /\ k # <<>> /\ k[1] = <<"d">> THEN 1 ELSE 0

\* one logged system call: its name, its path argument, whether it succeeded,
\* and one more fact x about it (rename: the failure was EXDEV; opendir: the
\* destination of the directory copy was a directory at that moment; write:
\* fewer bytes were transferred than asked for; mkdir: the path existed)
LogX(w, op, p, ok, x) ==
    [w EXCEPT !.ev = Append(@, [op |-> op, p |-> p, ok |-> ok, x |-> x])]

Log(w, op, p, ok) == LogX(w, op, p, ok, FALSE)

path_exists(w, s) == Resolves(w.fs, s)

is_directory(w, s) ==
    /\ s # <<>>
    /\ Follow(w.fs, Key(s)) \in DOMAIN w.fs
    /\ w.fs[Follow(w.fs, Key(s))].k = "dir"

get_file_size(w, s) == IF Resolves(w.fs, s) THEN Len(w.fs[Key(s)].data) ELSE -1

\* a successful open() or opendir() leaves one more handle open
Opened(w, ok) == IF ok THEN [w EXCEPT !.open = @ + 1] ELSE w

\* close(fd), closedir(dir)
Close(w) == [w EXCEPT !.open = @ - 1]

\* open(path, O_RDONLY): succeeds on any existing node, directories included
OpenRead(w, s) ==
    LET ok == Resolves(w.fs, s)
    IN [w |-> Opened(Log(w, "open_r", s, ok), ok), ok |-> ok]

\* open(path, O_WRONLY | O_CREAT | O_TRUNC, 0644)
OpenWrite(w, s) ==
    LET k == Key(s)
        ex == Resolves(w.fs, s)
        ok == /\ s # <<>>
              /\ ~TrailingSlash(s)
              /\ k # <<>>
              /\ Len(k) <= MaxDepth
              /\ IF k \in DOMAIN w.fs
                 THEN w.fs[k].k = "file" /\ Writable(w.fs, k)
                 ELSE /\ Parent(k) \in DOMAIN w.fs /\ w.fs[Parent(k)].k = "dir"
                      /\ Writable(w.fs, Parent(k))
        fs2 == IF ~ok THEN w.fs
               ELSE IF ex THEN [w.fs EXCEPT ![k].data = <<>>]
               ELSE (k :> FileNode(<<>>, MODE_FILE_CREATE)) @@ w.fs
    IN [w |-> Opened(Log([w EXCEPT !.fs = fs2], "open_w", s, ok), ok), ok |-> ok]

\* read(fd, buffer, n) at offset off of the file the descriptor refers to:
\* -1 on a directory or on an injected I/O error, else the bytes up to the
\* end of the file, at most n and at most w.short of them
ReadChunk(w, s, off, n) ==
    LET k == Key(s)
        idx == w.rd + 1
        bad == w.fs[k].k = "dir" \/ idx = w.rdFail
        data == w.fs[k].data
        m == IF off >= Len(data) THEN 0 ELSE Min(Min(n, w.short), Len(data) - off)
        w2 == Log([w EXCEPT !.rd = idx], "read", s, ~bad)
    IN [w |-> w2,
        n |-> IF bad THEN -1 ELSE m,
        buf |-> IF bad \/ m = 0 THEN <<>> ELSE SubSeq(data, off + 1, off + m)]

\* write(fd, buf, n) at offset off; the whole buffer is transferred, except
\* by the write number w.wrShort of the call, which transfers one byte less
WriteChunk(w, s, off, buf) ==
    LET k == Key(s)
        idx == w.wr + 1
        put == IF idx = w.wrShort THEN SubSeq(buf, 1, Len(buf) - 1) ELSE buf
        old == w.fs[k].data
        new == SubSeq(old, 1, Min(off, Len(old))) \o put
               \o SubSeq(old, off + Len(put) + 1, Len(old))
    IN [w |-> LogX([w EXCEPT !.fs[k].data = new, !.wr = idx], "write", s, TRUE,
                   idx = w.wrShort),
        n |-> Len(put)]

\* fstat(src_fd) + fchmod(dest_fd, st_mode)
CopyMode(w, s, d) == [w EXCEPT !.fs[Key(d)].mode = w.fs[Key(s)].mode]

\* ------------------------------------------------------------------------
\* copy_file
\* ------------------------------------------------------------------------
\* copy_file that never looks whether the destination is a directory
FinalDest_Literal(w, src, dest) == dest

\* the path copy_file opens for writing
FinalDest(w, src, dest) ==
    IF is_directory(w, dest) THEN JoinPath(dest, Basename(src)) ELSE dest

RECURSIVE copy_loop(_, _, _, _)
\* a loop that takes no notice of the number of bytes write() transferred
copy_loop_IgnoreShortWrite(w, src, final, off) ==
    Bind([r \in {ReadChunk(w, src, off, BUFFER_SIZE)} |->
      IF r.n > 0
      THEN Bind([wr \in {WriteChunk(r.w, final, off, r.buf)} |->
             copy_loop(wr.w, src, final, off + r.n)])
      ELSE [w |-> r.w, res |-> IF r.n < 0 THEN ERROR_FILE_READ ELSE SUCCESS]])

\* the read/write loop; off is the offset of both descriptors
copy_loop(w, src, final, off) ==
    Bind([r \in {ReadChunk(w, src, off, BUFFER_SIZE)} |->
      IF r.n > 0
      THEN Bind([wr \in {WriteChunk(r.w, final, off, r.buf)} |->
             IF wr.n # r.n
             THEN [w |-> wr.w, res |-> ERROR_FILE_WRITE]
             ELSE copy_loop(wr.w, src, final, off + wr.n)])
      ELSE [w |-> r.w, res |-> IF r.n < 0 THEN ERROR_FILE_READ ELSE SUCCESS]])

\* copy_file that forgets the source descriptor when the destination cannot be opened
copy_file_LeakOnOpenFail(w, src, dest) ==
    Bind([o1 \in {OpenRead(w, src)} |->
      IF ~o1.ok THEN [w |-> o1.w, res |-> ERROR_FILE_OPEN]
      ELSE Bind([final \in {FinalDest(o1.w, src, dest)} |->
        Bind([o2 \in {OpenWrite(o1.w, final)} |->
          IF ~o2.ok THEN [w |-> o2.w, res |-> ERROR_FILE_OPEN]
          ELSE Bind([lp \in {copy_loop(o2.w, src, final, 0)} |->
            IF lp.res # SUCCESS THEN [w |-> Close(Close(lp.w)), res |-> lp.res]
            ELSE [w |-> Close(Close(CopyMode(lp.w, src, final))), res |-> SUCCESS]])])])])

copy_file(w, src, dest) ==
    Bind([o1 \in {OpenRead(w, src)} |->
      IF ~o1.ok THEN [w |-> o1.w, res |-> ERROR_FILE_OPEN]
      ELSE Bind([final \in {FinalDest(o1.w, src, dest)} |->
        Bind([o2 \in {OpenWrite(o1.w, final)} |->
          IF ~o2.ok THEN [w |-> Close(o2.w), res |-> ERROR_FILE_OPEN]
          ELSE Bind([lp \in {copy_loop(o2.w, src, final, 0)} |->
            IF lp.res # SUCCESS THEN [w |-> Close(Close(lp.w)), res |-> lp.res]
            ELSE [w |-> Close(Close(CopyMode(lp.w, src, final))), res |-> SUCCESS]])])])])

\* ------------------------------------------------------------------------
\* Directories
\* ------------------------------------------------------------------------
\* mkdir(path, 0755)
Mkdir(w, s) ==
    LET k == Key(s)
        eexist == s # <<>> /\ k \in DOMAIN w.fs
        ok == /\ s # <<>>
              /\ k \notin DOMAIN w.fs
              /\ Len(k) <= MaxDepth
              /\ Parent(k) \in DOMAIN w.fs
              /\ w.fs[Parent(k)].k = "dir"
              /\ Writable(w.fs, Parent(k))
        fs2 == IF ok THEN (k :> DirNode) @@ w.fs ELSE w.fs
    IN [w |-> LogX([w EXCEPT !.fs = fs2], "mkdir", s, ok, eexist), ok |-> ok, eexist |-> eexist]

\* if (!path_exists(tmp)) { if (mkdir(tmp, 0755) != 0 && errno != EEXIST) fail }
mkdir_if_missing(w, s) ==
    IF path_exists(w, s) THEN [w |-> w, res |-> SUCCESS]
    ELSE Bind([m \in {Mkdir(w, s)} |->
           [w |-> m.w, res |-> IF ~m.ok /\ ~m.eexist THEN ERROR_DIR_CREATE ELSE SUCCESS]])

RECURSIVE mkdir_walk(_, _, _)
\* the loop over the characters tmp[p..] that creates every missing ancestor
mkdir_walk(w, tmp, p) ==
    IF p > Len(tmp) THEN [w |-> w, res |-> SUCCESS]
    ELSE IF tmp[p] = "/"
         THEN Bind([m \in {mkdir_if_missing(w, SubSeq(tmp, 1, p - 1))} |->
                IF m.res # SUCCESS THEN m ELSE mkdir_walk(m.w, tmp, p + 1)])
         ELSE mkdir_walk(w, tmp, p + 1)

\* path is not the empty string (tmp[len - 1] is read)
create_directory(w, path) ==
    LET tmp == IF path[Len(path)] = "/" THEN SubSeq(path, 1, Len(path) - 1) ELSE path
    IN Bind([wk \in {mkdir_walk(w, tmp, 2)} |->
         IF wk.res # SUCCESS THEN wk ELSE mkdir_if_missing(wk.w, tmp)])

\* order of the characters of file names
CharRank(c) ==
    CASE c = "a" -> 1 [] c = "b" -> 2 [] c = "c" -> 3 [] c = "d" -> 4
      [] c = "s" -> 5 [] OTHER -> 6

RECURSIVE NameLess(_, _)
NameLess(x, y) ==
    IF x = <<>> THEN y # <<>>
    ELSE IF y = <<>> THEN FALSE
    ELSE IF Head(x) = Head(y) THEN NameLess(Tail(x), Tail(y))
    ELSE CharRank(Head(x)) < CharRank(Head(y))

RECURSIVE SortNames(_, _)
\* the names of a set in ascending (asc) or descending order
SortNames(S, asc) ==
    IF S = {} THEN <<>>
    ELSE LET m == CHOOSE x \in S : \A y \in S \ {x} :
                      IF asc THEN NameLess(x, y) ELSE NameLess(y, x)
         IN <<m>> \o SortNames(S \ {m}, asc)

Children(fs, k) == {q \in DOMAIN fs : Len(q) = Len(k) + 1 /\ Parent(q) = k}

\* opendir(path) and the entries readdir() then yields, "." and ".." left
\* out: the entries present when the stream is first read, in the order the
\* file system happens to keep them (w.asc)
OpenDir(w, s, x) ==
    LET ok == is_directory(w, s)
        names == IF ok THEN SortNames({q[Len(q)] :
                                          q \in Children(w.fs, Follow(w.fs, Key(s)))}, w.asc)
                 ELSE <<>>
    IN [w |-> Opened(LogX(w, "opendir", s, ok, x), ok), ok |-> ok, names |-> names]

\* unlink(path)
Unlink(w, s) ==
    LET k == NoFollow(w.fs, Key(s))
        ok == /\ s # <<>> /\ k \in DOMAIN w.fs
              /\ w.fs[k].k \in {"file", "link"} /\ ~TrailingSlash(s)
              /\ Writable(w.fs, Parent(k))
        fs2 == IF ok THEN [q \in DOMAIN w.fs \ {k} |-> w.fs[q]] ELSE w.fs
    IN [w |-> Log([w EXCEPT !.fs = fs2], "unlink", s, ok), ok |-> ok]

\* rmdir(path)
Rmdir(w, s) ==
    LET k == NoFollow(w.fs, Key(s))
        ok == /\ s # <<>> /\ k \in DOMAIN w.fs /\ w.fs[k].k = "dir"
              /\ k # <<>> /\ Children(w.fs, k) = {}
              /\ Writable(w.fs, Parent(k))
        fs2 == IF ok THEN [q \in DOMAIN w.fs \ {k} |-> w.fs[q]] ELSE w.fs
    IN [w |-> Log([w EXCEPT !.fs = fs2], "rmdir", s, ok), ok |-> ok]

\* ------------------------------------------------------------------------
\* copy_directory
\* ------------------------------------------------------------------------
RECURSIVE copy_directory(_, _, _), copy_entries(_, _, _, _)
\* the readdir loop of copy_directory over the remaining entry names
copy_entries(w, src, dest, names) ==
    IF names = <<>> THEN [w |-> w, res |-> SUCCESS]
    ELSE LET sf == JoinPath(src, Head(names))
             df == JoinPath(dest, Head(names))
         IN Bind([r \in {IF is_directory(w, sf)
                 THEN copy_directory(w, sf, df)
                 ELSE copy_file(w, sf, df)} |->
              IF r.res # SUCCESS THEN r ELSE copy_entries(r.w, src, dest, Tail(names))])

copy_directory(w, src, dest) ==
    Bind([c \in {create_directory(w, dest)} |->
      IF c.res # SUCCESS THEN c
      ELSE Bind([o \in {OpenDir(c.w, src, is_directory(c.w, dest))} |->
        IF ~o.ok THEN [w |-> o.w, res |-> ERROR_DIR_OPEN]
        ELSE Bind([e \in {copy_entries(o.w, src, dest, o.names)} |->
               [w |-> Close(e.w), res |-> e.res]])])])

\* ------------------------------------------------------------------------
\* compare_files
\* ------------------------------------------------------------------------
RECURSIVE compare_loop(_, _, _, _)
\* a read loop that stops, satisfied, after the first pair of equal chunks
compare_loop_FirstChunkOnly(w, f1, f2, off) ==
    Bind([r1 \in {ReadChunk(w, f1, off, BUFFER_SIZE)} |->
      Bind([r2 \in {ReadChunk(r1.w, f2, off, BUFFER_SIZE)} |->
        IF r1.n < 0 \/ r2.n < 0 THEN [w |-> r2.w, res |-> ERROR_FILE_READ]
        ELSE IF r1.n # r2.n THEN [w |-> r2.w, res |-> ERROR_FILES_DIFFER]
        ELSE IF r1.buf # r2.buf THEN [w |-> r2.w, res |-> ERROR_FILES_DIFFER]
        ELSE [w |-> r2.w, res |-> SUCCESS]])])

\* the lock-step read loop; off is the offset of both descriptors
compare_loop(w, f1, f2, off) ==
    Bind([r1 \in {ReadChunk(w, f1, off, BUFFER_SIZE)} |->
      Bind([r2 \in {ReadChunk(r1.w, f2, off, BUFFER_SIZE)} |->
        IF r1.n < 0 \/ r2.n < 0 THEN [w |-> r2.w, res |-> ERROR_FILE_READ]
        ELSE IF r1.n # r2.n THEN [w |-> r2.w, res |-> ERROR_FILES_DIFFER]
        ELSE IF r1.n = 0 THEN [w |-> r2.w, res |-> SUCCESS]
        ELSE IF r1.buf # r2.buf THEN [w |-> r2.w, res |-> ERROR_FILES_DIFFER]
        ELSE compare_loop(r2.w, f1, f2, off + r1.n)])])

\* compare_files that opens both files before it looks at their sizes
compare_files_OpenFirst(w, f1, f2) ==
    IF ~path_exists(w, f1) \/ ~path_exists(w, f2) THEN [w |-> w, res |-> ERROR_FILE_OPEN]
    ELSE Bind([o1 \in {OpenRead(w, f1)} |->
           IF ~o1.ok THEN [w |-> o1.w, res |-> ERROR_FILE_OPEN]
           ELSE Bind([o2 \in {OpenRead(o1.w, f2)} |->
                  IF ~o2.ok THEN [w |-> Close(o2.w), res |-> ERROR_FILE_OPEN]
                  ELSE IF get_file_size(w, f1) # get_file_size(w, f2)
                       THEN [w |-> Close(Close(o2.w)), res |-> ERROR_FILES_DIFFER]
                  ELSE Bind([lp \in {compare_loop(o2.w, f1, f2, 0)} |->
                         [w |-> Close(Close(lp.w)), res |-> lp.res]])])])

compare_files(w, f1, f2) ==
    IF ~path_exists(w, f1) \/ ~path_exists(w, f2) THEN [w |-> w, res |-> ERROR_FILE_OPEN]
    ELSE IF get_file_size(w, f1) # get_file_size(w, f2)
         THEN [w |-> w, res |-> ERROR_FILES_DIFFER]
    ELSE Bind([o1 \in {OpenRead(w, f1)} |->
           IF ~o1.ok THEN [w |-> o1.w, res |-> ERROR_FILE_OPEN]
           ELSE Bind([o2 \in {OpenRead(o1.w, f2)} |->
                  IF ~o2.ok THEN [w |-> Close(o2.w), res |-> ERROR_FILE_OPEN]
                  ELSE Bind([lp \in {compare_loop(o2.w, f1, f2, 0)} |->
                         [w |-> Close(Close(lp.w)), res |-> lp.res]])])])

\* ------------------------------------------------------------------------
\* Checksums: unsigned long arithmetic, calculate_md5, verify_checksum
\* ------------------------------------------------------------------------
\* an unsigned long (64 bits) is kept as four 16-bit limbs, lowest first
LIMB == 65536

\* the unsigned long with value n, 0 <= n < LIMB * LIMB
ULong(n) == <<n % LIMB, n \div LIMB, 0, 0>>

\* (a + b) mod 2^64
Add64(a, b) ==
    Bind([p \in {<<a, b>>} |->
      LET s1 == p[1][1] + p[2][1]
          s2 == p[1][2] + p[2][2] + (s1 \div LIMB)
          s3 == p[1][3] + p[2][3] + (s2 \div LIMB)
          s4 == p[1][4] + p[2][4] + (s3 \div LIMB)
      IN <<s1 % LIMB, s2 % LIMB, s3 % LIMB, s4 % LIMB>>])

\* (a * m) mod 2^64 for a small factor m
Mul64(a, m) ==
    Bind([x \in {a} |->
      LET s1 == x[1] * m
          s2 == x[2] * m + (s1 \div LIMB)
          s3 == x[3] * m + (s2 \div LIMB)
          s4 == x[4] * m + (s3 \div LIMB)
      IN <<s1 % LIMB, s2 % LIMB, s3 % LIMB, s4 % LIMB>>])

\* a << 5
Shl5(a) == Mul64(a, 32)

\* buffer[i], a plain char holding the byte b, converted to unsigned long:
\* where char is signed the bytes 128..255 are negative and sign-extended
CharToULong(b, schar) ==
    IF schar /\ b >= 128
    THEN <<LIMB - 256 + b, LIMB - 1, LIMB - 1, LIMB - 1>>
    ELSE ULong(b)

HexDigits == <<"0", "1", "2", "3", "4", "5", "6", "7",
               "8", "9", "a", "b", "c", "d", "e", "f">>

\* the four hexadecimal digits of a limb
HexLimb(l) ==
    <<HexDigits[(l \div 4096) + 1], HexDigits[((l \div 256) % 16) + 1],
      HexDigits[((l \div 16) % 16) + 1], HexDigits[(l % 16) + 1]>>

\* "%016lx"
Hex16(a) == HexLimb(a[4]) \o HexLimb(a[3]) \o HexLimb(a[2]) \o HexLimb(a[1])

HASH_INIT == 5381

RECURSIVE hash_bytes(_, _, _, _)
\* the for loop over the bytes of one buffer; acc = [hash, hash2]
hash_bytes(buf, i, acc, schar) ==
    IF i > Len(buf) THEN acc
    ELSE Bind([a \in {[hash |-> Add64(Add64(Shl5(acc.hash), acc.hash),
                                      CharToULong(buf[i], schar)),
                       hash2 |-> Add64(Mul64(acc.hash2, 31), CharToULong(buf[i], schar))]} |->
           hash_bytes(buf, i + 1, a, schar)])

RECURSIVE md5_loop(_, _, _, _)
\* a read loop that starts the accumulators afresh for every buffer
md5_loop_ResetPerChunk(w, filepath, off, acc) ==
    Bind([r \in {ReadChunk(w, filepath, off, BUFFER_SIZE)} |->
      IF r.n > 0
      THEN Bind([a \in {hash_bytes(r.buf, 1,
                                    [hash |-> ULong(HASH_INIT), hash2 |-> ULong(0)],
                                    w.schar)} |->
             md5_loop(r.w, filepath, off + r.n, a)])
      ELSE [w |-> r.w, n |-> r.n, acc |-> acc]])

\* while ((bytes_read = read(fd, buffer, BUFFER_SIZE)) > 0)
md5_loop(w, filepath, off, acc) ==
    Bind([r \in {ReadChunk(w, filepath, off, BUFFER_SIZE)} |->
      IF r.n > 0
      THEN Bind([a \in {hash_bytes(r.buf, 1, acc, w.schar)} |->
             md5_loop(r.w, filepath, off + r.n, a)])
      ELSE [w |-> r.w, n |-> r.n, acc |-> acc]])

\* sum is the string left in checksum[]; it is written on SUCCESS only
calculate_md5(w, filepath) ==
    Bind([o \in {OpenRead(w, filepath)} |->
      IF ~o.ok THEN [w |-> o.w, res |-> ERROR_FILE_OPEN, sum |-> <<>>]
      ELSE Bind([lp \in {md5_loop(o.w, filepath, 0,
                                  [hash |-> ULong(HASH_INIT), hash2 |-> ULong(0)])} |->
        IF lp.n < 0 THEN [w |-> Close(lp.w), res |-> ERROR_FILE_READ, sum |-> <<>>]
        ELSE [w |-> Close(lp.w), res |-> SUCCESS,
              sum |-> Hex16(lp.acc.hash) \o Hex16(lp.acc.hash2)]])])

\* verify_checksum that compares no more than the characters of expected
verify_checksum_PrefixOnly(w, filepath, expected) ==
    Bind([m \in {calculate_md5(w, filepath)} |->
      IF m.res # SUCCESS THEN [w |-> m.w, res |-> m.res]
      ELSE IF SubSeq(m.sum, 1, Min(Len(expected), Len(m.sum))) # expected
           THEN [w |-> m.w, res |-> ERROR_FILES_DIFFER]
      ELSE [w |-> m.w, res |-> SUCCESS]])

\* strcmp is 0 exactly for equal strings
verify_checksum(w, filepath, expected) ==
    Bind([m \in {calculate_md5(w, filepath)} |->
      IF m.res # SUCCESS THEN [w |-> m.w, res |-> m.res]
      ELSE IF m.sum # expected THEN [w |-> m.w, res |-> ERROR_FILES_DIFFER]
      ELSE [w |-> m.w, res |-> SUCCESS]])

\* ------------------------------------------------------------------------
\* Move operations
\* ------------------------------------------------------------------------
RECURSIVE remove_directory(_, _), remove_entries(_, _, _)
\* the readdir loop of remove_directory; no result is looked at
remove_entries(w, path, names) ==
    IF names = <<>> THEN w
    ELSE LET fp == JoinPath(path, Head(names))
         IN Bind([r \in {IF is_directory(w, fp)
                 THEN remove_directory(w, fp)
                 ELSE Unlink(w, fp)} |->
              remove_entries(r.w, path, Tail(names))])

remove_directory(w, path) ==
    Bind([o \in {OpenDir(w, path, FALSE)} |->
      IF ~o.ok THEN [w |-> o.w, res |-> ERROR_DIR_OPEN]
      ELSE Bind([w2 \in {remove_entries(o.w, path, o.names)} |->
             [w |-> Rmdir(Close(w2), path).w, res |-> SUCCESS]])])

\* the device that holds the directory entry of a resolved path
MountOf(w, k) == Dev(w, Parent(k))

IsMountPoint(w, k) == w.xdev /\ k = <<<<"d">>>>

\* rename(a, b)
Rename(w, a, b) ==
    LET fs == w.fs
        ka == Key(a)
        kb == Key(b)
        parents == /\ a # <<>> /\ b # <<>> /\ ka # <<>> /\ kb # <<>>
                   /\ Parent(ka) \in DOMAIN fs /\ fs[Parent(ka)].k = "dir"
                   /\ Parent(kb) \in DOMAIN fs /\ fs[Parent(kb)].k = "dir"
        exdev == parents /\ MountOf(w, ka) # MountOf(w, kb)
        srcdir == fs[ka].k = "dir"
        legal == /\ parents /\ ~exdev
                 /\ ka \in DOMAIN fs
                 /\ Writable(fs, Parent(ka)) /\ Writable(fs, Parent(kb))
                 /\ ~IsMountPoint(w, ka) /\ ~IsMountPoint(w, kb)
                 /\ Len(kb) <= MaxDepth
                 /\ (TrailingSlash(a) \/ TrailingSlash(b)) => srcdir
                 /\ \/ ka = kb
                    \/ /\ ~IsPrefix(ka, kb)
                       /\ kb \in DOMAIN fs =>
                            /\ fs[kb].k = fs[ka].k
                            /\ Children(fs, kb) = {}
                       /\ \A q \in DOMAIN fs :
                            IsPrefix(ka, q) => Len(kb) + Len(q) - Len(ka) <= MaxDepth
        moved == {q \in DOMAIN fs : IsPrefix(ka, q)}
        Target(q) == kb \o SubSeq(q, Len(ka) + 1, Len(q))
        fs2 == IF ~legal \/ ka = kb THEN fs
               ELSE [q \in ((DOMAIN fs \ moved) \cup {Target(r) : r \in moved}) |->
                        IF IsPrefix(kb, q)
                        THEN fs[ka \o SubSeq(q, Len(kb) + 1, Len(q))]
                        ELSE fs[q]]
    IN [w |-> LogX([w EXCEPT !.fs = fs2], "rename", a, legal, exdev),
        ok |-> legal, exdev |-> exdev]

\* the verification of move_file has returned, with this result
LogCompare(w, src, res) == Log(w, "compare", src, res = SUCCESS)

\* the fallback copy of a move has returned, with this result
LogCopied(w, src, res) == Log(w, "copied", src, res = SUCCESS)

\* the fallback of move_file after a copy that succeeded in world w
verify_and_delete(w, src, dest) ==
    Bind([cm \in {compare_files(w, src, dest)} |->
      Bind([cw \in {LogCompare(cm.w, src, cm.res)} |->
        IF cm.res # SUCCESS THEN [w |-> Unlink(cw, dest).w, res |-> ERROR_MOVE_FAILED]
        ELSE Bind([ul \in {Unlink(cw, src)} |->
               [w |-> ul.w, res |-> IF ~ul.ok THEN ERROR_MOVE_FAILED ELSE SUCCESS]])])])

\* move_file that removes the source, not the copy, when verification fails
move_file_UnlinkSrcOnMismatch(w, src, dest) ==
    Bind([rn \in {Rename(w, src, dest)} |->
      IF rn.ok THEN [w |-> rn.w, res |-> SUCCESS]
      ELSE IF ~rn.exdev THEN [w |-> rn.w, res |-> ERROR_MOVE_FAILED]
      ELSE Bind([cp \in {[w |-> LogCopied(c.w, src, c.res), res |-> c.res] :
                          c \in {copy_file(rn.w, src, dest)}} |->
        IF cp.res # SUCCESS THEN cp
        ELSE Bind([cm \in {compare_files(cp.w, src, dest)} |->
          Bind([ul \in {Unlink(LogCompare(cm.w, src, cm.res), src)} |->
            [w |-> ul.w,
             res |-> IF cm.res # SUCCESS \/ ~ul.ok THEN ERROR_MOVE_FAILED ELSE SUCCESS]])])])])

\* move_file whose fallback never deletes the source
move_file_KeepSource(w, src, dest) ==
    Bind([rn \in {Rename(w, src, dest)} |->
      IF rn.ok THEN [w |-> rn.w, res |-> SUCCESS]
      ELSE IF ~rn.exdev THEN [w |-> rn.w, res |-> ERROR_MOVE_FAILED]
      ELSE Bind([cp \in {[w |-> LogCopied(c.w, src, c.res), res |-> c.res] :
                          c \in {copy_file(rn.w, src, dest)}} |->
        IF cp.res # SUCCESS THEN cp
        ELSE Bind([cm \in {compare_files(cp.w, src, dest)} |->
          Bind([cw \in {LogCompare(cm.w, src, cm.res)} |->
            IF cm.res # SUCCESS
            THEN [w |-> Unlink(cw, dest).w, res |-> ERROR_MOVE_FAILED]
            ELSE [w |-> cw, res |-> SUCCESS]])])])])

\* move_file that falls back to copying after any rename failure
move_file_AnyErrno(w, src, dest) ==
    Bind([rn \in {Rename(w, src, dest)} |->
      IF rn.ok THEN [w |-> rn.w, res |-> SUCCESS]
      ELSE Bind([cp \in {[w |-> LogCopied(c.w, src, c.res), res |-> c.res] :
                          c \in {copy_file(rn.w, src, dest)}} |->
        IF cp.res # SUCCESS THEN cp
        ELSE verify_and_delete(cp.w, src, dest)])])

\* move_file that tries its fallback copy again when it failed
move_file_RetryCopy(w, src, dest) ==
    Bind([rn \in {Rename(w, src, dest)} |->
      IF rn.ok THEN [w |-> rn.w, res |-> SUCCESS]
      ELSE IF ~rn.exdev THEN [w |-> rn.w, res |-> ERROR_MOVE_FAILED]
      ELSE Bind([c1 \in {[w |-> LogCopied(c.w, src, c.res), res |-> c.res] :
                          c \in {copy_file(rn.w, src, dest)}} |->
        Bind([cp \in IF c1.res = SUCCESS THEN {c1}
                      ELSE {[w |-> LogCopied(c.w, src, c.res), res |-> c.res] :
                              c \in {copy_file(c1.w, src, dest)}} |->
          IF cp.res # SUCCESS THEN cp
          ELSE verify_and_delete(cp.w, src, dest)])])])

move_file(w, src, dest) ==
    Bind([rn \in {Rename(w, src, dest)} |->
      IF rn.ok THEN [w |-> rn.w, res |-> SUCCESS]
      ELSE IF ~rn.exdev THEN [w |-> rn.w, res |-> ERROR_MOVE_FAILED]
      ELSE Bind([cp \in {[w |-> LogCopied(c.w, src, c.res), res |-> c.res] :
                          c \in {copy_file(rn.w, src, dest)}} |->
        IF cp.res # SUCCESS THEN cp
        ELSE verify_and_delete(cp.w, src, dest)])])

move_directory(w, src, dest) ==
    Bind([rn \in {Rename(w, src, dest)} |->
      IF rn.ok THEN [w |-> rn.w, res |-> SUCCESS]
      ELSE IF ~rn.exdev THEN [w |-> rn.w, res |-> ERROR_MOVE_FAILED]
      ELSE Bind([cp \in {copy_directory(rn.w, src, dest)} |->
        Bind([cw \in {LogCopied(cp.w, src, cp.res)} |->
          IF cp.res # SUCCESS THEN [w |-> cw, res |-> cp.res]
          ELSE Bind([rm \in {remove_directory(cw, src)} |->
            [w |-> rm.w, res |-> IF rm.res # SUCCESS THEN ERROR_MOVE_FAILED ELSE SUCCESS]])])])])

\* ------------------------------------------------------------------------
\* Pattern matching and filtering
\* ------------------------------------------------------------------------
\* the character at the head of a C string, "" standing for the final NUL
Peek(p) == IF p = <<>> THEN "" ELSE Head(p)

Rest(p) == IF p = <<>> THEN <<>> ELSE Tail(p)

RECURSIVE br_skip(_)
\* fnmatch, after a member of a bracket expression matched: skip to the
\* closing ']'; yields the pattern after it, or "open" when there is none
br_skip(p) ==
    LET c == Peek(p)
    IN IF c = "]" THEN [st |-> "matched", rest |-> Rest(p)]
       ELSE IF c = "" THEN [st |-> "open", rest |-> <<>>]
       ELSE IF c = "\\"
            THEN IF Len(p) = 1 THEN [st |-> "nomatch", rest |-> <<>>]
                 ELSE br_skip(SubSeq(p, 3, Len(p)))
       ELSE br_skip(Rest(p))

RECURSIVE br_scan(_, _, _)
\* fnmatch, inside a bracket expression: c is the character just taken from
\* the pattern, p what follows it, fn the character of the name
br_scan(c, p, fn) ==
    IF c = "\\" /\ p = <<>> THEN [st |-> "nomatch", rest |-> <<>>]
    ELSE IF c = "" THEN [st |-> "open", rest |-> <<>>]
    ELSE LET m == IF c = "\\" THEN Head(p) ELSE c
             q == IF c = "\\" THEN Tail(p) ELSE p
         IN IF m = fn THEN br_skip(q)
            ELSE IF Peek(q) = "]" THEN [st |-> "nomatch", rest |-> <<>>]
            ELSE br_scan(Peek(q), Rest(q), fn)

RECURSIVE fnmatch(_, _)
\* fnmatch(pattern, string, 0) == 0, as the C library (glibc) computes it,
\* for patterns without '!', '^', '-' and ':'
fnmatch(p, n) ==
    IF p = <<>> THEN n = <<>>
    ELSE LET c == Head(p)
         IN IF c = "?" THEN n # <<>> /\ fnmatch(Tail(p), Tail(n))
            ELSE IF c = "*"
                 THEN \E i \in 0..Len(n) : fnmatch(Tail(p), SubSeq(n, i + 1, Len(n)))
            ELSE IF c = "\\"
                 THEN /\ Len(p) > 1
                      /\ n # <<>>
                      /\ Head(n) = p[2]
                      /\ fnmatch(SubSeq(p, 3, Len(p)), Tail(n))
            ELSE IF c = "["
                 THEN /\ n # <<>>
                      /\ LET b == br_scan(Peek(Tail(p)), Rest(Tail(p)), Head(n))
                         IN IF b.st = "matched" THEN fnmatch(b.rest, Tail(n))
                            ELSE IF b.st = "open"
                                 THEN Head(n) = "[" /\ fnmatch(Tail(p), Tail(n))
                            ELSE FALSE
            ELSE n # <<>> /\ Head(n) = c /\ fnmatch(Tail(p), Tail(n))

\* match_pattern that passes its arguments to fnmatch in the wrong order
match_pattern_Swapped(filename, pattern) == fnmatch(filename, pattern)

match_pattern(filename, pattern) == fnmatch(pattern, filename)

\* a NULL-terminated array of patterns, or the NULL pointer
NullPatterns == [null |-> TRUE, pats |-> <<>>]
Patterns(ps) == [null |-> FALSE, pats |-> ps]

RECURSIVE any_match(_, _, _)
\* for (i = 0; patterns[i] != NULL; i++) if (match_pattern(...)) return ...
any_match(filename, pats, i) ==
    IF i > Len(pats) THEN FALSE
    ELSE IF match_pattern(filename, pats[i]) THEN TRUE
    ELSE any_match(filename, pats, i + 1)

\* should_copy_file that looks at the include patterns first
should_copy_file_IncludeFirst(filename, inc, exc) ==
    IF inc.null \/ inc.pats = <<>> THEN
        IF ~exc.null /\ any_match(filename, exc.pats, 1) THEN 0 ELSE 1
    ELSE IF any_match(filename, inc.pats, 1) THEN 1
    ELSE 0

should_copy_file(filename, inc, exc) ==
    IF ~exc.null /\ any_match(filename, exc.pats, 1) THEN 0
    ELSE IF inc.null \/ inc.pats = <<>> THEN 1
    ELSE IF any_match(filename, inc.pats, 1) THEN 1
    ELSE 0

\* ------------------------------------------------------------------------
\* Statistics (CopyStats) and the filtered copies
\* ------------------------------------------------------------------------
\* a double that is the quotient of two longs, kept as <<numerator, divisor>>
Quotient(a, b) == <<a, b>>

Zero == Quotient(0, 1)

\* w.now is what time(NULL) returns
init_stats(w) ==
    [w EXCEPT !.stats = [total_files |-> 0, total_dirs |-> 0,
                         total_bytes |-> 0, copied_bytes |-> 0,
                         start_time |-> w.now, current_time |-> w.now,
                         transfer_speed |-> Zero]]

calculate_speed(stats) ==
    LET elapsed == stats.current_time - stats.start_time
    IN IF elapsed <= 0 THEN Zero ELSE Quotient(stats.copied_bytes, elapsed)

update_stats(w, bytes) ==
    LET s1 == [w.stats EXCEPT !.copied_bytes = @ + bytes, !.current_time = w.now]
    IN [w EXCEPT !.stats = [s1 EXCEPT !.transfer_speed = calculate_speed(s1)]]

\* the quotient of two longs cut towards zero, as the cast to long cuts it
TruncDiv(a, b) == IF a >= 0 THEN a \div b ELSE -((-a) \div b)

\* (long)(remaining_bytes / transfer_speed), the speed being num / den
estimate_time_remaining(stats) ==
    IF stats.transfer_speed[1] <= 0 \/ stats.total_bytes <= 0 THEN 0
    ELSE LET remaining_bytes == stats.total_bytes - stats.copied_bytes
         IN TruncDiv(remaining_bytes * stats.transfer_speed[2], stats.transfer_speed[1])

\* a count that adds the size of the file to total_bytes only
count_file_TotalOnly(w, dest_path) ==
    LET w1 == [w EXCEPT !.stats.total_files = @ + 1]
        size == get_file_size(w1, dest_path)
    IN IF size > 0
       THEN [w1 EXCEPT !.stats.total_bytes = @ + size]
       ELSE w1

\* the statistics block of copy_file_filtered after a successful copy
count_file(w, dest_path) ==
    LET w1 == [w EXCEPT !.stats.total_files = @ + 1]
        size == get_file_size(w1, dest_path)
    IN IF size > 0
       THEN update_stats([w1 EXCEPT !.stats.total_bytes = @ + size], size)
       ELSE w1

\* copy_file_filtered that tries to copy a file the filter rejects
copy_file_filtered_NoFilter(w, src_path, dest_path, inc, exc, stats) ==
    Bind([r \in {copy_file(w, src_path, dest_path)} |->
      IF r.res = SUCCESS /\ stats
      THEN [w |-> count_file(r.w, dest_path), res |-> r.res]
      ELSE r])

\* stats: the pointer given is not NULL (the block it points to is w.stats)
copy_file_filtered(w, src_path, dest_path, inc, exc, stats) ==
    IF should_copy_file(Basename(src_path), inc, exc) = 0
    THEN [w |-> w, res |-> SUCCESS]
    ELSE Bind([r \in {copy_file(w, src_path, dest_path)} |->
           IF r.res = SUCCESS /\ stats
           THEN [w |-> count_file(r.w, dest_path), res |-> r.res]
           ELSE r])

RECURSIVE copy_directory_filtered(_, _, _, _, _, _), copy_entries_filtered(_, _, _, _, _, _, _)
\* the loop of copy_directory_filtered going on after an entry that failed
copy_entries_filtered_KeepGoing(w, src, dest, inc, exc, stats, names) ==
    IF names = <<>> THEN [w |-> w, res |-> SUCCESS]
    ELSE LET sf == JoinPath(src, Head(names))
             df == JoinPath(dest, Head(names))
         IN Bind([r \in {IF is_directory(w, sf)
                         THEN copy_directory_filtered(w, sf, df, inc, exc, stats)
                         ELSE copy_file_filtered(w, sf, df, inc, exc, stats)} |->
              Bind([t \in {copy_entries_filtered(r.w, src, dest, inc, exc, stats, Tail(names))} |->
                IF r.res # SUCCESS THEN [w |-> t.w, res |-> r.res] ELSE t])])

\* the readdir loop of copy_directory_filtered over the remaining entry names
copy_entries_filtered(w, src, dest, inc, exc, stats, names) ==
    IF names = <<>> THEN [w |-> w, res |-> SUCCESS]
    ELSE LET sf == JoinPath(src, Head(names))
             df == JoinPath(dest, Head(names))
         IN Bind([r \in {IF is_directory(w, sf)
                         THEN copy_directory_filtered(w, sf, df, inc, exc, stats)
                         ELSE copy_file_filtered(w, sf, df, inc, exc, stats)} |->
              IF r.res # SUCCESS THEN r
              ELSE copy_entries_filtered(r.w, src, dest, inc, exc, stats, Tail(names))])

\* copy_directory_filtered that leaves total_dirs alone
copy_directory_filtered_NoDirCount(w, src, dest, inc, exc, stats) ==
    Bind([c \in {create_directory(w, dest)} |->
      IF c.res # SUCCESS THEN c
      ELSE Bind([o \in {OpenDir(c.w, src, is_directory(c.w, dest))} |->
        IF ~o.ok THEN [w |-> o.w, res |-> ERROR_DIR_OPEN]
        ELSE Bind([e \in {copy_entries_filtered(o.w, src, dest, inc, exc, stats, o.names)} |->
               [w |-> Close(e.w), res |-> e.res]])])])

copy_directory_filtered(w, src, dest, inc, exc, stats) ==
    Bind([c \in {create_directory(w, dest)} |->
      IF c.res # SUCCESS THEN c
      ELSE Bind([w1 \in {IF stats THEN [c.w EXCEPT !.stats.total_dirs = @ + 1] ELSE c.w} |->
        Bind([o \in {OpenDir(w1, src, is_directory(w1, dest))} |->
          IF ~o.ok THEN [w |-> o.w, res |-> ERROR_DIR_OPEN]
          ELSE Bind([e \in {copy_entries_filtered(o.w, src, dest, inc, exc, stats, o.names)} |->
                 [w |-> Close(e.w), res |-> e.res]])])])])

\* ------------------------------------------------------------------------
\* State: the file system, its mount layout, and the library call made on it
\* ------------------------------------------------------------------------
\* char_signed: the program was built for a target whose plain char is signed
VARIABLES fs, xdev, call, char_signed

vars == <<fs, xdev, call, char_signed>>

\* path strings used as arguments
pC == <<"c">>
pS == <<"s">>
pSA == <<"s", "/", "a">>
pSB == <<"s", "/", "b">>
pSBA == <<"s", "/", "b", "/", "a">>
pD == <<"d">>
pDA == <<"d", "/", "a">>
pDB == <<"d", "/", "b">>
pDBs == <<"d", "/", "b", "/">>
pDC == <<"d", "/", "c">>
pAbsDCA == <<"/", "d", "/", "c", "/", "a">>

\* the source file s/a: empty, or two bytes with mode 0600
SrcFiles == {FileNode(<<>>, 420), FileNode(<<1, 2>>, 384)}
OldContent == <<3, 3, 3>>

\* a directory at p holding the file a
DirWithFile(p, c) ==
    (Key(p) :> DirNode) @@ (Key(JoinPath(p, <<"a">>)) :> FileNode(c, 420))

BaseTree ==
    (<<>> :> DirNode) @@ (Key(pS) :> DirNode) @@ (Key(pD) :> DirNode)
    @@ (Key(pC) :> FileNode(<<2>>, 420))

\* the tree t with the directory at p made read-only
ReadOnlyAt(t, p) == [q \in DOMAIN t |-> IF q = Key(p) THEN ReadOnlyDir ELSE t[q]]

\* s/b is absent or a directory with a file, writable or read-only; d/a is
\* absent, a longer file or an empty directory; d/b is absent or a directory
\* with a longer file
InitFS ==
    { BaseTree @@ (Key(pSA) :> f) @@ sb @@ da @@ db :
        f \in SrcFiles,
        sb \in {<<>>, DirWithFile(pSB, <<1>>), ReadOnlyAt(DirWithFile(pSB, <<1>>), pSB)},
        da \in {<<>>, Key(pDA) :> FileNode(OldContent, 420), Key(pDA) :> DirNode},
        db \in {<<>>, DirWithFile(pDB, OldContent)} }

NoCall == [op |-> "init"]

Init ==
    /\ fs \in InitFS
    /\ xdev \in BOOLEAN
    /\ char_signed = TRUE
    /\ call = NoCall

\* the world a call starts in: read fault rf, directory order up
\* the clock stands at 0, a statistics block was initialised, no handle is
\* open and no write will be cut short
World(rf, up) ==
    init_stats([fs |-> fs, xdev |-> xdev, asc |-> up, ev |-> <<>>, rd |-> 0, rdFail |-> rf,
                short |-> BUFFER_SIZE, schar |-> char_signed, now |-> 0, stats |-> <<>>,
                open |-> 0, wr |-> 0, wrShort |-> 0])

\* the record of a finished call: arguments, result, system calls made, and
\* the file system as it was before the call
Done(op, src, dest, rf, r) ==
    /\ fs' = r.w.fs
    /\ call' = [op |-> op, src |-> src, dest |-> dest, rf |-> rf,
                res |-> r.res, ev |-> r.w.ev, pre |-> fs]
    /\ UNCHANGED <<xdev, char_signed>>

FileArgs == {pC, pSA, pSB, pSBA}
DirArgs == {pS, pSB}
DestArgs == {pSA, pS, pD, pDA, pDBs, pDC, pAbsDCA}

CopyFile ==
    /\ call = NoCall
    /\ \E src \in FileArgs, dest \in DestArgs, rf \in 0..MaxRdFail :
         \E r \in {copy_file(World(rf, TRUE), src, dest)} : Done("copy_file", src, dest, rf, r)

CopyDirectory ==
    /\ call = NoCall
    /\ \E src \in DirArgs, dest \in DestArgs, rf \in 0..MaxRdFail, up \in BOOLEAN :
         \E r \in {copy_directory(World(rf, up), src, dest)} : Done("copy_directory", src, dest, rf, r)

MoveFile ==
    /\ call = NoCall
    /\ \E src \in FileArgs, dest \in DestArgs, rf \in 0..MaxRdFail :
         \E r \in {move_file(World(rf, TRUE), src, dest)} : Done("move_file", src, dest, rf, r)

MoveDirectory ==
    /\ call = NoCall
    /\ \E src \in DirArgs, dest \in DestArgs, rf \in 0..MaxRdFail, up \in BOOLEAN :
         \E r \in {move_directory(World(rf, up), src, dest)} : Done("move_directory", src, dest, rf, r)

Next == CopyFile \/ CopyDirectory \/ MoveFile \/ MoveDirectory

Spec == Init /\ [][Next]_vars

\* ------------------------------------------------------------------------
\* match_pattern and should_copy_file on their own: the arguments are drawn
\* at the start, one step applies the function
\* ------------------------------------------------------------------------
SeqsUpTo(S, n) == UNION {[1..i -> S] : i \in 0..n}

PatChars == {"a", "b", "*", "?", "[", "]", "\\"}
NameChars == {"a", "b", "[", "]"}

EmptyFS == (<<>> :> DirNode)

InitMatch ==
    /\ fs = EmptyFS
    /\ xdev = FALSE
    /\ char_signed = TRUE
    /\ call \in {[op |-> "args", name |-> n, pattern |-> p] :
                    n \in SeqsUpTo(NameChars, MaxNameLen),
                    p \in SeqsUpTo(PatChars, MaxPatLen)}

MatchPattern ==
    /\ call.op = "args"
    /\ call' = [op |-> "match_pattern", name |-> call.name, pattern |-> call.pattern,
                res |-> match_pattern(call.name, call.pattern)]
    /\ UNCHANGED <<fs, xdev, char_signed>>

NextMatch == MatchPattern

SpecMatch == InitMatch /\ [][NextMatch]_vars

FilterNames == {<<"a">>, <<"b">>, <<"a", "b">>, <<"b", "a">>, <<"a", "a">>}
FilterPatterns == {<<"a", "*">>, <<"*", "b">>, <<"?">>, <<"b">>}
PatternArrays == {NullPatterns} \cup {Patterns(ps) : ps \in SeqsUpTo(FilterPatterns, MaxPatterns)}

InitFilter ==
    /\ fs = EmptyFS
    /\ xdev = FALSE
    /\ char_signed = TRUE
    /\ call \in {[op |-> "args", name |-> n, inc |-> i, exc |-> e] :
                    n \in FilterNames, i \in PatternArrays, e \in PatternArrays}

ShouldCopyFile ==
    /\ call.op = "args"
    /\ call' = [op |-> "should_copy_file", name |-> call.name,
                inc |-> call.inc, exc |-> call.exc,
                res |-> should_copy_file(call.name, call.inc, call.exc)]
    /\ UNCHANGED <<fs, xdev, char_signed>>

NextFilter == ShouldCopyFile

SpecFilter == InitFilter /\ [][NextFilter]_vars

\* ------------------------------------------------------------------------
\* The filtered copies, on one device
\* ------------------------------------------------------------------------
\* latest value, in seconds, that time(NULL) returns during a call
MaxTick == 1

pA == <<"a">>
pB == <<"b">>
pAny == <<"?">>

\* include and exclude arrays given to the filtered copies
FilterArgs ==
    { [inc |-> NullPatterns, exc |-> NullPatterns],
      [inc |-> Patterns(<<pA>>), exc |-> NullPatterns],
      [inc |-> NullPatterns, exc |-> Patterns(<<pA>>)],
      [inc |-> Patterns(<<pB>>), exc |-> Patterns(<<>>)],
      [inc |-> Patterns(<<pAny>>), exc |-> Patterns(<<pB, pC>>)] }

pSC == <<"s", "/", "c">>

\* the trees of InitFS and, where s/b is a writable directory and d holds
\* nothing yet, the same tree with a regular file at d/b
FilteredTrees ==
    InitFS \cup
    { (Key(pDB) :> FileNode(OldContent, MODE_FILE_CREATE)) @@ t :
        t \in {u \in InitFS : /\ Key(pSB) \in DOMAIN u
                              /\ Writable(u, Key(pSB))
                              /\ Key(pDA) \notin DOMAIN u
                              /\ Key(pDB) \notin DOMAIN u} }

\* these trees with one more file, s/c, beside s/a
InitFilteredCopy ==
    /\ fs \in {(Key(pSC) :> FileNode(<<2>>, MODE_FILE_CREATE)) @@ t : t \in FilteredTrees}
    /\ xdev = FALSE
    /\ char_signed = TRUE
    /\ call = NoCall

\* the world of a call made at time tick with a block initialised at time 0
WorldAt(rf, up, tick) == [World(rf, up) EXCEPT !.now = tick]

DoneFiltered(op, src, dest, rf, f, sp, r) ==
    /\ fs' = r.w.fs
    /\ call' = [op |-> op, src |-> src, dest |-> dest, rf |-> rf,
                inc |-> f.inc, exc |-> f.exc, sp |-> sp,
                res |-> r.res, ev |-> r.w.ev, pre |-> fs,
                stats0 |-> World(rf, TRUE).stats, stats |-> r.w.stats]
    /\ UNCHANGED <<xdev, char_signed>>

CopyFileFiltered ==
    /\ call = NoCall
    /\ \E src \in FileArgs, dest \in DestArgs, rf \in 0..MaxRdFail,
          f \in FilterArgs, sp \in BOOLEAN, tick \in 0..MaxTick :
         \E r \in {copy_file_filtered(WorldAt(rf, TRUE, tick), src, dest, f.inc, f.exc, sp)} :
            DoneFiltered("copy_file_filtered", src, dest, rf, f, sp, r)

CopyDirectoryFiltered ==
    /\ call = NoCall
    /\ \E src \in DirArgs, dest \in DestArgs, rf \in 0..MaxRdFail, up \in BOOLEAN,
          f \in FilterArgs, sp \in BOOLEAN, tick \in 0..MaxTick :
         \E r \in {copy_directory_filtered(WorldAt(rf, up, tick), src, dest, f.inc, f.exc, sp)} :
            DoneFiltered("copy_directory_filtered", src, dest, rf, f, sp, r)

NextFilteredCopy == CopyFileFiltered \/ CopyDirectoryFiltered \/ CopyDirectory

SpecFilteredCopy == InitFilteredCopy /\ [][NextFilteredCopy]_vars

\* ------------------------------------------------------------------------
\* compare_files on files around the size of the read buffer
\* ------------------------------------------------------------------------
pX == <<"x">>
pY == <<"y">>
pZ == <<"z">>

\* n zero bytes
Zeros(n) == [i \in 1..n |-> 0]

\* the bytes of c with a 1 at offset k - 1
OneAt(c, k) == [c EXCEPT ![k] = 1]

\* empty, one byte, one buffer, one buffer and a byte, two buffers; with
\* differences in the first chunk, at the end of it, and in the second chunk
CompareContents ==
    { <<>>, <<1>>,
      Zeros(BUFFER_SIZE), OneAt(Zeros(BUFFER_SIZE), BUFFER_SIZE),
      Zeros(BUFFER_SIZE + 1), OneAt(Zeros(BUFFER_SIZE + 1), BUFFER_SIZE + 1),
      Zeros(2 * BUFFER_SIZE), OneAt(Zeros(2 * BUFFER_SIZE), BUFFER_SIZE + 1) }

\* the files x and y exist, z does not
InitCompare ==
    /\ fs \in { EmptyFS @@ (Key(pX) :> FileNode(a, MODE_FILE_CREATE))
                        @@ (Key(pY) :> FileNode(b, MODE_FILE_CREATE)) :
                  a \in CompareContents, b \in CompareContents }
    /\ xdev = FALSE
    /\ char_signed = TRUE
    /\ call = NoCall

CompareArgs == {pX, pY, pZ}

CompareFiles ==
    /\ call = NoCall
    /\ \E f1 \in CompareArgs, f2 \in CompareArgs, rf \in 0..MaxRdFail :
         \E r \in {compare_files(World(rf, TRUE), f1, f2)} :
            /\ fs' = r.w.fs
            /\ call' = [op |-> "compare_files", f1 |-> f1, f2 |-> f2, rf |-> rf,
                        res |-> r.res, ev |-> r.w.ev]
            /\ UNCHANGED <<xdev, char_signed>>

NextCompare == CompareFiles

SpecCompare == InitCompare /\ [][NextCompare]_vars

\* ------------------------------------------------------------------------
\* Checksums of small files, in a build with signed or with unsigned char
\* ------------------------------------------------------------------------
\* fourteen bytes take both accumulators past 2^64
LongContent == [i \in 1..14 |-> 100]

\* empty, two bytes, one byte above 127, and the long content
SumContents == {<<>>, <<1, 2>>, <<200>>, LongContent}

\* read() returns everything asked for, or at most 1 or 3 bytes at a time
ShortReads == {1, 3, BUFFER_SIZE}

InitSum ==
    /\ fs \in { EmptyFS @@ (Key(pX) :> FileNode(a, MODE_FILE_CREATE))
                        @@ (Key(pY) :> FileNode(b, MODE_FILE_CREATE)) :
                  a \in SumContents, b \in SumContents }
    /\ xdev = FALSE
    /\ char_signed \in BOOLEAN
    /\ call = NoCall

\* the world of a call whose reads are cut short
WorldShort(rf, short) == [World(rf, TRUE) EXCEPT !.short = short]

\* what is kept of an earlier call
Earlier(c) == [op |-> c.op, filepath |-> c.filepath, res |-> c.res, sum |-> c.sum]

\* one checksum, or a second one after it
CalculateMd5 ==
    /\ \/ call = NoCall
       \/ call.op = "calculate_md5" /\ call.first = NoCall
    /\ \E filepath \in CompareArgs, rf \in 0..MaxRdFail, short \in ShortReads :
         \E r \in {calculate_md5(WorldShort(rf, short), filepath)} :
            /\ fs' = r.w.fs
            /\ call' = [op |-> "calculate_md5", filepath |-> filepath, rf |-> rf,
                        short |-> short, res |-> r.res, sum |-> r.sum, ev |-> r.w.ev,
                        first |-> IF call = NoCall THEN NoCall ELSE Earlier(call)]
            /\ UNCHANGED <<xdev, char_signed>>

\* the digests of the files, each also without its last character and with
\* one character more, and the empty string
ExpectedArgs ==
    LET sums == {calculate_md5(World(0, TRUE), p).sum : p \in {pX, pY}}
    IN sums \cup {SubSeq(d, 1, Len(d) - 1) : d \in sums}
            \cup {Append(d, "0") : d \in sums} \cup {<<>>}

VerifyChecksum ==
    /\ call = NoCall
    /\ \E filepath \in CompareArgs, rf \in 0..MaxRdFail, short \in ShortReads,
          expected \in ExpectedArgs :
         \E r \in {verify_checksum(WorldShort(rf, short), filepath, expected)} :
            /\ fs' = r.w.fs
            /\ call' = [op |-> "verify_checksum", filepath |-> filepath, rf |-> rf,
                        short |-> short, expected |-> expected, res |-> r.res,
                        ev |-> r.w.ev]
            /\ UNCHANGED <<xdev, char_signed>>

NextSum == CalculateMd5 \/ VerifyChecksum

SpecSum == InitSum /\ [][NextSum]_vars

\* the file system is a tree: every node but the root has a directory above it
TreeOK ==
    /\ <<>> \in DOMAIN fs
    /\ \A k \in DOMAIN fs : k # <<>> =>
         Parent(k) \in DOMAIN fs /\ fs[Parent(k)].k = "dir"

\* ------------------------------------------------------------------------
\* Properties
\* ------------------------------------------------------------------------
IsMove == call.op \in {"move_file", "move_directory"}

PreWorld == [World(0, TRUE) EXCEPT !.fs = call.pre]

NowWorld == World(0, TRUE)

SrcWasFile == Key(call.src) \in DOMAIN call.pre /\ call.pre[Key(call.src)].k = "file"

SrcWasDir == Key(call.src) \in DOMAIN call.pre /\ call.pre[Key(call.src)].k = "dir"

\* event i deleted something at or under the source of the call
DeletesSource(i) ==
    /\ call.ev[i].op \in {"unlink", "rmdir"}
    /\ call.ev[i].ok
    /\ IsPrefix(Key(call.src), Key(call.ev[i].p))

\* an event named op that succeeded lies before event i
Before(i, op) == \E j \in 1..(i - 1) : call.ev[j].op = op /\ call.ev[j].ok

\* C1 as stated: in move_file and move_directory nothing of the source is
\* deleted unless the rename succeeded or a content verification of source
\* against destination succeeded earlier in the same call.
C1_DeleteOnlyAfterVerify ==
    IsMove =>
        \A i \in 1..Len(call.ev) :
            DeletesSource(i) => Before(i, "rename") \/ Before(i, "compare")

\* C1 amended: move_file deletes the source only after the rename or the
\* content verification succeeded; move_directory deletes parts of the
\* source only after the rename succeeded or its fallback copy_directory
\* returned SUCCESS (it verifies no content).
C1_DeleteOnlyAfterVerifyOrCopy ==
    /\ call.op = "move_file" =>
         \A i \in 1..Len(call.ev) :
             DeletesSource(i) => Before(i, "rename") \/ Before(i, "compare")
    /\ call.op = "move_directory" =>
         \A i \in 1..Len(call.ev) :
             DeletesSource(i) => Before(i, "rename") \/ Before(i, "copied")

\* a directory move has deleted its source on the fallback path
C1_Witness ==
    /\ call.op = "move_directory"
    /\ call.ev[1].x
    /\ \E i \in 1..Len(call.ev) : DeletesSource(i)

\* the path the fallback copy of the call writes to
CopyTarget == FinalDest(PreWorld, call.src, call.dest)

\* the rename of a move failed with EXDEV and the verification then failed
VerifyFailed ==
    /\ call.op = "move_file"
    /\ call.ev[1].x
    /\ \E i \in 1..Len(call.ev) : call.ev[i].op = "compare" /\ ~call.ev[i].ok

\* C2: a move_file whose rename fails with EXDEV and whose verification
\* fails returns ERROR_MOVE_FAILED, leaves the source as it was, and leaves
\* no file at the place the fallback copy wrote to.
C2_VerifyFailureLeavesNoCopy ==
    VerifyFailed =>
        /\ call.res = ERROR_MOVE_FAILED
        /\ Key(call.src) \in DOMAIN fs
        /\ fs[Key(call.src)] = call.pre[Key(call.src)]
        /\ Key(CopyTarget) \notin DOMAIN fs

\* C3: whenever copy_directory opens a source directory to read its
\* entries, the destination path of that directory is a directory.
C3_DestDirBeforeEntries ==
    call.op = "copy_directory" =>
        \A i \in 1..Len(call.ev) :
            (call.ev[i].op = "opendir" /\ call.ev[i].ok) => call.ev[i].x

\* C4: after a successful copy_file of a regular file, the resolved
\* destination holds exactly the bytes the source had, compare_files finds
\* source and destination identical, and the destination has the source's
\* permission bits.
C4_CopyFidelity ==
    (call.op = "copy_file" /\ call.res = SUCCESS /\ SrcWasFile) =>
        /\ Key(CopyTarget) \in DOMAIN fs
        /\ fs[Key(CopyTarget)].k = "file"
        /\ fs[Key(CopyTarget)].data = call.pre[Key(call.src)].data
        /\ fs[Key(CopyTarget)].mode = call.pre[Key(call.src)].mode
        /\ compare_files(NowWorld, call.src, CopyTarget).res = SUCCESS

\* the files of the source tree before the call
SrcFilesBefore ==
    {q \in DOMAIN call.pre : call.pre[q].k = "file" /\ IsPrefix(Key(call.src), q)}

\* where the file q of the source tree belongs under the destination
Under(q) == Key(call.dest) \o SubSeq(q, Len(Key(call.src)) + 1, Len(q))

\* neither of source and destination lies inside the other
Apart == ~IsPrefix(Key(call.src), Key(call.dest)) /\ ~IsPrefix(Key(call.dest), Key(call.src))

\* C5: after a successful copy_directory(T, D), D outside T and absent,
\* empty or populated, every file at relative path p under T is a file at
\* D/p with the content it had in T.
C5_TreeFidelity ==
    (call.op = "copy_directory" /\ call.res = SUCCESS /\ SrcWasDir /\ Apart) =>
        \A q \in SrcFilesBefore :
            /\ Under(q) \in DOMAIN fs
            /\ fs[Under(q)].k = "file"
            /\ fs[Under(q)].data = call.pre[q].data

\* b is the text after the last '/' of s, or all of s when s has no '/'
IsBasename(b, s) ==
    /\ \A i \in 1..Len(b) : b[i] # "/"
    /\ \/ b = s
       \/ /\ Len(s) > Len(b)
          /\ SubSeq(s, Len(s) - Len(b) + 1, Len(s)) = b
          /\ s[Len(s) - Len(b)] = "/"

\* the node at k is the same before and after the call
Untouched(k) ==
    IF k \in DOMAIN call.pre THEN k \in DOMAIN fs /\ fs[k] = call.pre[k]
    ELSE k \notin DOMAIN fs

DestWasDir == Key(call.dest) \in DOMAIN call.pre /\ call.pre[Key(call.dest)].k = "dir"

\* the destination the claim names: D/basename(S) when D was a directory at
\* the call, D otherwise
NamedTargets ==
    IF DestWasDir
    THEN {call.dest \o <<"/">> \o b :
            b \in {c \in {SubSeq(call.src, j, Len(call.src)) : j \in 1..(Len(call.src) + 1)} :
                      IsBasename(c, call.src)}}
    ELSE {call.dest}

C9_MoveSuccess ==
    (call.op = "move_file" /\ call.res = SUCCESS /\ SrcWasFile) =>
        /\ Key(call.src) \notin DOMAIN fs
        /\ Key(call.dest) \in DOMAIN fs
        /\ fs[Key(call.dest)].data = call.pre[Key(call.src)].data

\* C9 amended: the same, for a source and a destination that do not name
\* the same file.
C9_MoveSuccessDistinct ==
    (call.op = "move_file" /\ call.res = SUCCESS /\ SrcWasFile
        /\ Key(call.src) # Key(call.dest)) =>
        /\ Key(call.src) \notin DOMAIN fs
        /\ Key(call.dest) \in DOMAIN fs
        /\ fs[Key(call.dest)].k = "file"
        /\ fs[Key(call.dest)].data = call.pre[Key(call.src)].data

\* a file was moved by the cross-device fallback
C9_Witness ==
    /\ call.op = "move_file"
    /\ call.res = SUCCESS
    /\ SrcWasFile
    /\ call.ev[1].x
    /\ call.pre[Key(call.src)].data # <<>>

\* C10: when the rename of a move fails for another reason than EXDEV, the
\* move returns ERROR_MOVE_FAILED, has made no other system call, and the
\* file system is as it was.
C10_NoFallbackOnOtherError ==
    (IsMove /\ ~call.ev[1].ok /\ ~call.ev[1].x) =>
        /\ call.res = ERROR_MOVE_FAILED
        /\ Len(call.ev) = 1
        /\ fs = call.pre

\* a rename onto a directory failed on one device
C10_Witness ==
    /\ IsMove
    /\ ~call.ev[1].ok
    /\ ~call.ev[1].x
    /\ SrcWasFile
    /\ DestWasDir

\* some pattern of the array matches the name
SomeMatch(name, arr) ==
    ~arr.null /\ \E i \in 1..Len(arr.pats) : match_pattern(name, arr.pats[i])

Reverse(q) == [i \in 1..Len(q) |-> q[Len(q) + 1 - i]]

Reversed(arr) == [arr EXCEPT !.pats = Reverse(@)]

\* C7: should_copy_file returns 0 when some exclude pattern matches the
\* name; otherwise 1 when the include array is NULL or empty; otherwise 1
\* iff some include pattern matches; and the order of the patterns in
\* either array does not change the result.
C7_FilterDecision ==
    call.op = "should_copy_file" =>
        /\ call.res = (IF SomeMatch(call.name, call.exc) THEN 0
                       ELSE IF call.inc.null \/ call.inc.pats = <<>> THEN 1
                       ELSE IF SomeMatch(call.name, call.inc) THEN 1
                       ELSE 0)
        /\ call.res = should_copy_file(call.name, Reversed(call.inc), Reversed(call.exc))

\* a name matched by an include and by an exclude pattern was rejected
C7_Witness ==
    /\ call.op = "should_copy_file"
    /\ SomeMatch(call.name, call.exc)
    /\ SomeMatch(call.name, call.inc)
    /\ call.res = 0

\* what a pattern element stands for: any run of characters, or one
\* character out of a set
Star == [t |-> "star", s |-> {}]
One(S) == [t |-> "one", s |-> S]
Never == [t |-> "never", s |-> {}]

\* the pattern read with '*' and '?' as the only special characters
PlainTokens(p) ==
    [i \in 1..Len(p) |->
        IF p[i] = "*" THEN Star ELSE IF p[i] = "?" THEN One(NameChars) ELSE One({p[i]})]

RECURSIVE ClassParse(_, _, _)
\* the members of a bracket expression whose text after '[' is p
ClassParse(p, acc, first) ==
    IF p = <<>> THEN [ok |-> FALSE, s |-> {}, rest |-> <<>>]
    ELSE IF Head(p) = "]" /\ ~first THEN [ok |-> TRUE, s |-> acc, rest |-> Tail(p)]
    ELSE IF Head(p) = "\\"
         THEN IF Len(p) = 1 THEN [ok |-> FALSE, s |-> {}, rest |-> <<>>]
              ELSE ClassParse(SubSeq(p, 3, Len(p)), acc \cup {p[2]}, FALSE)
    ELSE ClassParse(Tail(p), acc \cup {Head(p)}, FALSE)

RECURSIVE GlobTokens(_)
\* the pattern read with '*', '?', bracket expressions and backslash escapes
GlobTokens(p) ==
    IF p = <<>> THEN <<>>
    ELSE IF Head(p) = "*" THEN <<Star>> \o GlobTokens(Tail(p))
    ELSE IF Head(p) = "?" THEN <<One(NameChars)>> \o GlobTokens(Tail(p))
    ELSE IF Head(p) = "\\"
         THEN IF Len(p) = 1 THEN <<Never>>
              ELSE <<One({p[2]})>> \o GlobTokens(SubSeq(p, 3, Len(p)))
    ELSE IF Head(p) = "["
         THEN LET c == ClassParse(Tail(p), {}, TRUE)
              IN IF c.ok THEN <<One(c.s)>> \o GlobTokens(c.rest) ELSE <<Never>>
    ELSE <<One({Head(p)})>> \o GlobTokens(Tail(p))

\* every '[' opens a closed bracket expression, no backslash ends the pattern
WellFormed(p) == \A i \in 1..Len(GlobTokens(p)) : GlobTokens(p)[i] # Never

RECURSIVE TokensMatch(_, _)
\* the whole name n matches the token sequence
TokensMatch(toks, n) ==
    IF toks = <<>> THEN n = <<>>
    ELSE IF Head(toks).t = "star"
         THEN \E i \in 0..Len(n) : TokensMatch(Tail(toks), SubSeq(n, i + 1, Len(n)))
    ELSE /\ n # <<>>
         /\ Head(n) \in Head(toks).s
         /\ TokensMatch(Tail(toks), Tail(n))

Fallback == IsMove /\ ~call.ev[1].ok /\ call.ev[1].x

\* event i is an unlink or rmdir at or under the source that failed
DeleteFailed(i) ==
    /\ call.ev[i].op \in {"unlink", "rmdir"}
    /\ ~call.ev[i].ok
    /\ IsPrefix(Key(call.src), Key(call.ev[i].p))

\* C11: on the cross-device fallback path of move_file and move_directory,
\* a failed delete of any part of the source makes the move return
\* ERROR_MOVE_FAILED, and a SUCCESS result implies that the source path no
\* longer exists.
C11_DeleteFailureReported ==
    Fallback =>
        /\ (\E i \in 1..Len(call.ev) : DeleteFailed(i)) => call.res = ERROR_MOVE_FAILED
        /\ call.res = SUCCESS => Key(call.src) \notin DOMAIN fs

\* ------------------------------------------------------------------------
\* Directory copies: failures
\* ------------------------------------------------------------------------
IsTreeCopy == call.op \in {"copy_directory", "copy_directory_filtered"}

\* the error code the copy functions return when a system call of this kind fails
FailCode(op) ==
    CASE op = "mkdir" -> ERROR_DIR_CREATE
      [] op = "opendir" -> ERROR_DIR_OPEN
      [] op \in {"open_r", "open_w"} -> ERROR_FILE_OPEN
      [] op = "read" -> ERROR_FILE_READ
      [] OTHER -> ERROR_FILE_WRITE

\* what event i created is still there
StillThere(i) ==
    LET e == call.ev[i]
    IN /\ (e.op = "open_w" /\ e.ok) => (Key(e.p) \in DOMAIN fs /\ fs[Key(e.p)].k = "file")
       /\ (e.op = "mkdir" /\ e.ok) => (Key(e.p) \in DOMAIN fs /\ fs[Key(e.p)].k = "dir")

\* event i is a system call that failed, a mkdir that create_directory
\* passes over because the path exists (EEXIST) left aside
Failed(i) == ~call.ev[i].ok /\ ~(call.ev[i].op = "mkdir" /\ call.ev[i].x)

\* C12: in copy_directory and copy_directory_filtered the first failing step
\* (creating a destination directory, opening a source directory, copying a
\* file, at any depth) is the last thing the call does, its error code is
\* the result of the call, and what was copied before it stays in place.
C12_FirstFailureEnds ==
    IsTreeCopy =>
        /\ \A i \in 1..Len(call.ev) :
              Failed(i) => (i = Len(call.ev) /\ call.res = FailCode(call.ev[i].op))
        /\ call.res # SUCCESS => (call.ev # <<>> /\ Failed(Len(call.ev)))
        /\ \A i \in 1..Len(call.ev) : StillThere(i)
        /\ DOMAIN call.pre \subseteq DOMAIN fs

\* a filtered directory copy failed in a subdirectory after it had written a file
C12_Witness ==
    /\ call.op = "copy_directory_filtered"
    /\ call.res = ERROR_FILE_READ
    /\ Len(Key(call.ev[Len(call.ev)].p)) > Len(Key(call.src)) + 1
    /\ \E i \in 1..Len(call.ev) : call.ev[i].op = "write" /\ call.ev[i].ok

\* ------------------------------------------------------------------------
\* Statistics of the filtered copies
\* ------------------------------------------------------------------------
\* the filter admits the source file of the call
Admitted == should_copy_file(Basename(call.src), call.inc, call.exc) = 1

\* a file was copied with a statistics block, to another file than itself
CountedCopy ==
    /\ call.op = "copy_file_filtered"
    /\ call.res = SUCCESS
    /\ call.sp
    /\ Admitted
    /\ Key(CopyTarget) # Key(call.src)

\* the counters grew by one file of n bytes
GrewBy(n) ==
    /\ call.stats.total_files = call.stats0.total_files + 1
    /\ call.stats.total_bytes = call.stats0.total_bytes + n
    /\ call.stats.copied_bytes = call.stats0.copied_bytes + n

\* C18: a successful copy_file_filtered with a statistics block adds 1 to
\* total_files and the size of the copied file to total_bytes and to
\* copied_bytes, for a literal destination and for a directory destination.
C18_StatsCountCopiedFile ==
    CountedCopy => GrewBy(Len(call.pre[Key(call.src)].data))

\* the number of system calls named op that the call made and that succeeded
Made(op) == Cardinality({i \in 1..Len(call.ev) : call.ev[i].op = op /\ call.ev[i].ok})

\* a filtered directory copy with a block initialised just before succeeded
CountedTreeCopy ==
    /\ call.op = "copy_directory_filtered"
    /\ call.res = SUCCESS
    /\ call.sp

\* the destination did not exist before the call, the directory above it did
DestWasNew ==
    /\ Key(call.dest) \notin DOMAIN call.pre
    /\ Parent(Key(call.dest)) \in DOMAIN call.pre

\* C19 as stated: after a successful copy_directory_filtered with fresh
\* stats, total_files is the number of files written to the destination and
\* total_dirs is the number of directories created at the destination.
C19_StatsCountCreated ==
    CountedTreeCopy =>
        /\ call.stats.total_files = Made("open_w")
        /\ call.stats.total_dirs = Made("mkdir")

\* C19 amended: total_files is the number of files written; total_dirs is
\* the number of source directories visited, one per destination directory
\* whether it had to be created or was there; it is the number of
\* directories created when the destination was new.
C19_StatsCountVisited ==
    CountedTreeCopy =>
        /\ call.stats.total_files = Made("open_w")
        /\ call.stats.total_dirs = Made("opendir")
        /\ DestWasNew => call.stats.total_dirs = Made("mkdir")

\* a tree of two directories was copied into an existing directory and a
\* file was written
C19_Witness ==
    /\ CountedTreeCopy
    /\ DestWasDir
    /\ call.stats.total_dirs = 2
    /\ call.stats.total_files >= 1
    /\ Made("mkdir") < 2

\* ------------------------------------------------------------------------
\* Files the filter rejects
\* ------------------------------------------------------------------------
\* the filter of the call admits a file of this name
Admits(name) == should_copy_file(name, call.inc, call.exc) = 1

\* event i opens, reads or writes a file
TouchesFile(i) == call.ev[i].op \in {"open_r", "open_w", "read", "write"}

\* the call opened the source file q for reading
WasRead(q) ==
    \E i \in 1..Len(call.ev) : call.ev[i].op = "open_r" /\ Key(call.ev[i].p) = q

\* C20: copy_file_filtered on a name the filter rejects returns SUCCESS,
\* makes no system call, changes no file and no field of the statistics;
\* copy_directory_filtered never opens, reads or writes a rejected file and
\* goes on after it: when it succeeds every admitted file was read.
C20_RejectedFileSkipped ==
    /\ (call.op = "copy_file_filtered" /\ ~Admitted) =>
          /\ call.res = SUCCESS
          /\ call.ev = <<>>
          /\ fs = call.pre
          /\ call.stats = call.stats0
    /\ call.op = "copy_directory_filtered" =>
          /\ \A i \in 1..Len(call.ev) :
                TouchesFile(i) => Admits(Basename(call.ev[i].p))
          /\ (call.res = SUCCESS /\ SrcWasDir) =>
                \A q \in SrcFilesBefore : Admits(q[Len(q)]) => WasRead(q)

\* a directory copy went past a rejected file and copied an admitted one
C20_Witness ==
    /\ call.op = "copy_directory_filtered"
    /\ call.res = SUCCESS
    /\ SrcWasDir
    /\ \E q \in SrcFilesBefore : ~Admits(q[Len(q)])
    /\ \E i \in 1..Len(call.ev) : call.ev[i].op = "write"

\* ------------------------------------------------------------------------
\* compare_files
\* ------------------------------------------------------------------------
\* both arguments of the comparison name files that exist
BothExist == Key(call.f1) \in DOMAIN fs /\ Key(call.f2) \in DOMAIN fs

Content(p) == fs[Key(p)].data

\* C13: compare_files returns ERROR_FILE_OPEN when either path is missing;
\* on two readable files it returns SUCCESS iff they have the same length
\* and the same bytes, and ERROR_FILES_DIFFER iff they do not.
C13_CompareResult ==
    call.op = "compare_files" =>
        /\ ~BothExist => call.res = ERROR_FILE_OPEN
        /\ (BothExist /\ call.rf = 0) =>
              /\ call.res = SUCCESS <=> Content(call.f1) = Content(call.f2)
              /\ call.res = ERROR_FILES_DIFFER <=> Content(call.f1) # Content(call.f2)

\* two different files of two full buffers each were found identical
C13_Witness ==
    /\ call.op = "compare_files"
    /\ BothExist
    /\ call.f1 # call.f2
    /\ call.rf = 0
    /\ Len(Content(call.f1)) = 2 * BUFFER_SIZE
    /\ call.res = SUCCESS

\* C14: when the two files have different sizes, compare_files returns
\* ERROR_FILES_DIFFER without opening or reading either file.
C14_SizeShortCircuit ==
    (call.op = "compare_files" /\ BothExist
        /\ Len(Content(call.f1)) # Len(Content(call.f2))) =>
        /\ call.res = ERROR_FILES_DIFFER
        /\ call.ev = <<>>

\* files of one buffer and of one buffer and a byte were compared
C14_Witness ==
    /\ call.op = "compare_files"
    /\ BothExist
    /\ Len(Content(call.f1)) = BUFFER_SIZE
    /\ Len(Content(call.f2)) = BUFFER_SIZE + 1
    /\ call.res = ERROR_FILES_DIFFER

\* ------------------------------------------------------------------------
\* Checksums
\* ------------------------------------------------------------------------
\* two checksums were computed, one after the other, and both succeeded
TwoSums ==
    /\ call.op = "calculate_md5"
    /\ call.first # NoCall
    /\ call.res = SUCCESS
    /\ call.first.res = SUCCESS

\* C15: two files with equal contents (compare_files returns SUCCESS) get
\* equal digests, whatever their paths, however the reads are cut, and
\* whatever call was made before.
C15_DigestOfContentOnly ==
    (TwoSums /\ compare_files(NowWorld, call.first.filepath, call.filepath).res = SUCCESS) =>
        call.sum = call.first.sum

\* two files with the same fourteen bytes were summed, the second one
\* with short reads
C15_Witness ==
    /\ TwoSums
    /\ call.filepath # call.first.filepath
    /\ Content(call.filepath) = LongContent
    /\ Content(call.first.filepath) = LongContent
    /\ call.short = 3

\* the result and the digest of calculate_md5 in the call's circumstances
SumNow == calculate_md5(WorldShort(call.rf, call.short), call.filepath)

\* C16: verify_checksum(F, d) passes on the error of calculate_md5, and
\* otherwise returns SUCCESS iff d is the string calculate_md5 produces for
\* F and ERROR_FILES_DIFFER for every other d.
C16_VerifyMatchesDigest ==
    call.op = "verify_checksum" =>
        /\ SumNow.res # SUCCESS => call.res = SumNow.res
        /\ SumNow.res = SUCCESS =>
              /\ call.res = SUCCESS <=> call.expected = SumNow.sum
              /\ call.res = ERROR_FILES_DIFFER <=> call.expected # SumNow.sum

\* a digest without its last character was rejected
C16_Witness ==
    /\ call.op = "verify_checksum"
    /\ SumNow.res = SUCCESS
    /\ call.expected = SubSeq(SumNow.sum, 1, 31)
    /\ call.res = ERROR_FILES_DIFFER

RECURSIVE Accumulate(_, _, _, _)
\* h := (h * m + b) mod 2^64 over the bytes data[i..], each taken as 0..255
Accumulate(data, i, h, m) ==
    IF i > Len(data) THEN h
    ELSE Bind([h2 \in {Add64(Mul64(h, m), ULong(data[i]))} |->
           Accumulate(data, i + 1, h2, m)])

\* C17: the digest is 32 hexadecimal characters: 16 for h, then 16 for g,
\* where h starts at 5381, g at 0, and every byte b, as its value 0..255,
\* gives h := (h * 33 + b) mod 2^64 and g := (g * 31 + b) mod 2^64.
C17_DigestFormula ==
    (call.op = "calculate_md5" /\ call.res = SUCCESS) =>
        /\ Len(call.sum) = 32
        /\ call.sum = Hex16(Accumulate(Content(call.filepath), 1, ULong(5381), 33))
                      \o Hex16(Accumulate(Content(call.filepath), 1, ULong(0), 31))

\* the directories below the source directory before the call
SrcSubdirsBefore ==
    {q \in DOMAIN call.pre :
        /\ call.pre[q].k = "dir"
        /\ IsPrefix(Key(call.src), q)
        /\ q # Key(call.src)}

\* the call opened the directory q for enumeration
WasListed(q) ==
    \E i \in 1..Len(call.ev) :
        call.ev[i].op = "opendir" /\ call.ev[i].ok /\ Key(call.ev[i].p) = q

\* C21: after a successful copy_directory_filtered every subdirectory of the
\* source was descended into and is a directory at the destination, whatever
\* its name and the patterns, and a file was copied iff should_copy_file
\* admits its own name.
C21_FilterOnFileNamesOnly ==
    (call.op = "copy_directory_filtered" /\ call.res = SUCCESS /\ SrcWasDir) =>
        /\ \A q \in SrcSubdirsBefore :
              /\ WasListed(q)
              /\ Under(q) \in DOMAIN fs
              /\ fs[Under(q)].k = "dir"
        /\ \A q \in SrcFilesBefore : WasRead(q) <=> Admits(q[Len(q)])

\* ------------------------------------------------------------------------
\* main: command line mode
\* ------------------------------------------------------------------------
\* one call of a library function made by main, with its result
Called(fn, src, dest, r) == <<[fn |-> fn, src |-> src, dest |-> dest, res |-> r.res]>>

\* main that goes on to the copy without testing that the source exists
main_NoExistCheck(w, argc, argv1, argv2) ==
    IF argc # 3 THEN [w |-> w, exit |-> -1, menu |-> TRUE, calls |-> <<>>]
    ELSE IF is_directory(w, argv1)
    THEN Bind([r \in {copy_directory(w, argv1, argv2)} |->
           [w |-> r.w, exit |-> IF r.res = SUCCESS THEN 0 ELSE 1, menu |-> FALSE,
            calls |-> Called("copy_directory", argv1, argv2, r)]])
    ELSE Bind([r \in {copy_file(w, argv1, argv2)} |->
           [w |-> r.w, exit |-> IF r.res = SUCCESS THEN 0 ELSE 1, menu |-> FALSE,
            calls |-> Called("copy_file", argv1, argv2, r)]])

\* main up to the menu loop: with argc = 3 one copy and the exit code, with
\* any other argc the interactive menu (exit -1: the process has not exited)
main(w, argc, argv1, argv2) ==
    IF argc # 3 THEN [w |-> w, exit |-> -1, menu |-> TRUE, calls |-> <<>>]
    ELSE IF ~path_exists(w, argv1)
    THEN [w |-> w, exit |-> 1, menu |-> FALSE, calls |-> <<>>]
    ELSE IF is_directory(w, argv1)
    THEN Bind([r \in {copy_directory(w, argv1, argv2)} |->
           [w |-> r.w, exit |-> IF r.res = SUCCESS THEN 0 ELSE 1, menu |-> FALSE,
            calls |-> Called("copy_directory", argv1, argv2, r)]])
    ELSE Bind([r \in {copy_file(w, argv1, argv2)} |->
           [w |-> r.w, exit |-> IF r.res = SUCCESS THEN 0 ELSE 1, menu |-> FALSE,
            calls |-> Called("copy_file", argv1, argv2, r)]])

InitMain ==
    /\ fs \in InitFS
    /\ xdev = FALSE
    /\ char_signed = TRUE
    /\ call = NoCall

\* the number of arguments of the process, the program name included
ArgCounts == 1..4

\* the process is started; argv[1] and argv[2] are read only when argc = 3
Main ==
    /\ call = NoCall
    /\ \E argc \in ArgCounts, src \in FileArgs \cup DirArgs, dest \in DestArgs,
          rf \in 0..MaxRdFail, up \in BOOLEAN :
         \E r \in {main(World(rf, up), argc, src, dest)} :
            /\ fs' = r.w.fs
            /\ call' = [op |-> "main", argc |-> argc, src |-> src, dest |-> dest,
                        rf |-> rf, exit |-> r.exit, menu |-> r.menu,
                        calls |-> r.calls, ev |-> r.w.ev, pre |-> fs]
            /\ UNCHANGED <<xdev, char_signed>>

NextMain == Main

SpecMain == InitMain /\ [][NextMain]_vars

\* the process was started with exactly two path arguments
TwoArgs == call.op = "main" /\ call.argc = 3

\* C22: started with exactly two path arguments the program never enters the
\* menu; when the source exists it makes exactly one copy, copy_directory for
\* a directory and copy_file otherwise, and exits with 0 iff the copy returned
\* SUCCESS and with 1 otherwise; when the source does not exist it exits with
\* 1 and attempts no copy.
C22_OneShotCopy ==
    TwoArgs =>
        /\ ~call.menu
        /\ call.exit \in {0, 1}
        /\ IF Resolves(call.pre, call.src)
           THEN /\ Len(call.calls) = 1
                /\ call.calls[1].fn = (IF SrcWasDir THEN "copy_directory" ELSE "copy_file")
                /\ call.calls[1].src = call.src
                /\ call.calls[1].dest = call.dest
                /\ call.exit = 0 <=> call.calls[1].res = SUCCESS
           ELSE /\ call.calls = <<>>
                /\ call.ev = <<>>
                /\ fs = call.pre
                /\ call.exit = 1

\* a run with two arguments copied a directory tree and exited with 0
C22_Witness ==
    /\ TwoArgs
    /\ call.exit = 0
    /\ Len(call.calls) = 1
    /\ call.calls[1].fn = "copy_directory"
    /\ \E i \in 1..Len(call.ev) : call.ev[i].op = "write"

\* ------------------------------------------------------------------------
\* Sequences of library calls and the handles they leave open
\* ------------------------------------------------------------------------
MaxCalls == 2

\* no call yet; base handles were open when the program started
InitHandles ==
    /\ fs \in {t \in InitFS : /\ Key(pSB) \in DOMAIN t
                              /\ Writable(t, Key(pSB))
                              /\ Key(pDB) \notin DOMAIN t}
    /\ xdev = FALSE
    /\ char_signed = TRUE
    /\ call \in {[op |-> "init", res |-> SUCCESS, n |-> 0, opens |-> 0,
                  base |-> b, open |-> b] : b \in 0..1}

\* the world of the next call of the sequence
WorldNext(rf, up, ws) == [World(rf, up) EXCEPT !.open = call.open, !.wrShort = ws]

\* the number of handles a call opened
Opens(ev) ==
    Cardinality({i \in 1..Len(ev) : ev[i].op \in {"open_r", "open_w", "opendir"} /\ ev[i].ok})

\* what is kept of a call of the sequence
DoneNext(op, r) ==
    /\ fs' = r.w.fs
    /\ call' = [op |-> op, res |-> r.res, n |-> call.n + 1, opens |-> Opens(r.w.ev),
                base |-> call.base, open |-> r.w.open]
    /\ UNCHANGED <<xdev, char_signed>>

NextCopyFile ==
    /\ call.n < MaxCalls
    /\ \E src \in {pSA, pSB}, dest \in {pDA, pAbsDCA}, rf \in 0..1, ws \in 0..1 :
         \E r \in {copy_file(WorldNext(rf, TRUE, ws), src, dest)} : DoneNext("copy_file", r)

NextCompareFiles ==
    /\ call.n < MaxCalls
    /\ \E f1 \in {pSA}, f2 \in {pC, pDA, pS}, rf \in 0..2 :
         \E r \in {compare_files(WorldNext(rf, TRUE, 0), f1, f2)} : DoneNext("compare_files", r)

NextCalculateMd5 ==
    /\ call.n < MaxCalls
    /\ \E f \in {pSA, pSB, pDA}, rf \in 0..1 :
         \E r \in {calculate_md5(WorldNext(rf, TRUE, 0), f)} : DoneNext("calculate_md5", r)

NextCopyDirectory ==
    /\ call.n < MaxCalls
    /\ \E src \in {pS, pSB}, dest \in {pD, pDA}, rf \in 0..1, up \in BOOLEAN :
         \E r \in {copy_directory(WorldNext(rf, up, 0), src, dest)} :
            DoneNext("copy_directory", r)

NextCopyDirectoryFiltered ==
    /\ call.n < MaxCalls
    /\ \E src \in {pS, pSA}, dest \in {pD, pDA}, rf \in 0..1, f \in FilterArgs :
         \E r \in {copy_directory_filtered(WorldNext(rf, TRUE, 0), src, dest, f.inc, f.exc, TRUE)} :
            DoneNext("copy_directory_filtered", r)

NextRemoveDirectory ==
    /\ call.n < MaxCalls
    /\ \E path \in {pSB, pD, pC} :
         \E r \in {remove_directory(WorldNext(0, TRUE, 0), path)} :
            DoneNext("remove_directory", r)

NextHandles ==
    \/ NextCopyFile
    \/ NextCompareFiles
    \/ NextCalculateMd5
    \/ NextCopyDirectory
    \/ NextCopyDirectoryFiltered
    \/ NextRemoveDirectory

SpecHandles == InitHandles /\ [][NextHandles]_vars

\* C23: after any sequence of copy_file, compare_files, calculate_md5,
\* copy_directory, copy_directory_filtered and remove_directory calls, each
\* ended by success or by any of its error returns, as many handles are open
\* as before the sequence: every descriptor and directory stream a call
\* opened was closed before the call returned.
C23_HandlesClosed == call.open = call.base

\* the second call of a sequence was a copy_file that opened its source and
\* then failed to open its destination
C23_Witness ==
    /\ call.n = 2
    /\ call.op = "copy_file"
    /\ call.res = ERROR_FILE_OPEN
    /\ call.opens = 1

\* ------------------------------------------------------------------------
\* copy_file with short reads and short writes
\* ------------------------------------------------------------------------
\* the most bytes a read returns
ReadCaps == {1, BUFFER_SIZE}

\* the write that is cut short (0: none)
MaxWrShort == 2

InitShortIO ==
    /\ fs \in InitFS
    /\ xdev = FALSE
    /\ char_signed = TRUE
    /\ call = NoCall

CopyFileShortIO ==
    /\ call = NoCall
    /\ \E src \in FileArgs, dest \in DestArgs, rf \in 0..MaxRdFail,
          sh \in ReadCaps, ws \in 0..MaxWrShort :
         \E r \in {copy_file([World(rf, TRUE) EXCEPT !.short = sh, !.wrShort = ws], src, dest)} :
            /\ fs' = r.w.fs
            /\ call' = [op |-> "copy_file", src |-> src, dest |-> dest, rf |-> rf,
                        short |-> sh, wrShort |-> ws,
                        res |-> r.res, ev |-> r.w.ev, pre |-> fs]
            /\ UNCHANGED <<xdev, char_signed>>

NextShortIO == CopyFileShortIO

SpecShortIO == InitShortIO /\ [][NextShortIO]_vars

\* the events of the read/write loop: those after the two opens
LoopEvents == SubSeq(call.ev, 3, Len(call.ev))

\* event i of the loop is a write that transferred fewer bytes than were read
ShortWrite(i) == LoopEvents[i].op = "write" /\ LoopEvents[i].x

\* the file copy_file wrote to, and its mode when copy_file had opened it
Final == Key(FinalDest(PreWorld, call.src, call.dest))

ModeAtOpen ==
    IF Final \in DOMAIN call.pre THEN call.pre[Final].mode ELSE MODE_FILE_CREATE

\* the number of reads that returned bytes when the whole source is read
Chunks(len) == (len + Min(call.short, BUFFER_SIZE) - 1) \div Min(call.short, BUFFER_SIZE)

\* C24: in copy_file every read that returns bytes, however few, is followed
\* by the write of those bytes, and reading goes on until a read returns 0:
\* a source read in short pieces arrives whole at a different destination
\* file; a write that transfers fewer bytes than were read is the last system
\* call on the files: copy_file returns ERROR_FILE_WRITE and the mode of the
\* destination is as it was when it was opened.
C24_ShortReadsAndWrites ==
    (call.op = "copy_file" /\ Len(call.ev) >= 2 /\ call.ev[2].ok) =>
        /\ \A i \in 1..Len(LoopEvents) :
              /\ LoopEvents[i].op = (IF i % 2 = 1 THEN "read" ELSE "write")
              /\ (ShortWrite(i) \/ ~LoopEvents[i].ok) => i = Len(LoopEvents)
        /\ (\E i \in 1..Len(LoopEvents) : ShortWrite(i)) =>
              /\ call.res = ERROR_FILE_WRITE
              /\ fs[Final].mode = ModeAtOpen
        /\ (\A i \in 1..Len(LoopEvents) : ~ShortWrite(i) /\ LoopEvents[i].ok) =>
              /\ call.res = SUCCESS
              /\ LoopEvents # <<>>
              /\ LoopEvents[Len(LoopEvents)].op = "read"
              /\ Final # Key(call.src) =>
                    /\ fs[Final].data = call.pre[Key(call.src)].data
                    /\ Len(LoopEvents) = 2 * Chunks(Len(fs[Final].data)) + 1

\* a two-byte source was read one byte at a time: the first byte was written,
\* the write of the second was cut short, and the source has another mode
\* than the destination
C24_Witness ==
    /\ call.op = "copy_file"
    /\ call.short = 1
    /\ call.res = ERROR_FILE_WRITE
    /\ Len(LoopEvents) = 4
    /\ ShortWrite(4)
    /\ call.pre[Key(call.src)].mode # fs[Final].mode

\* ------------------------------------------------------------------------
\* The order of the steps of move_file
\* ------------------------------------------------------------------------
\* the events of the call that are the step named op
Steps(op) == {i \in 1..Len(call.ev) : call.ev[i].op = op}

\* the events that try to delete the source of the call
SrcDeletes == {i \in Steps("unlink") : call.ev[i].p = call.src}

\* the source of the call is as it was before the call
SrcUntouched ==
    IF Key(call.src) \in DOMAIN call.pre
    THEN Key(call.src) \in DOMAIN fs /\ fs[Key(call.src)] = call.pre[Key(call.src)]
    ELSE Key(call.src) \notin DOMAIN fs

\* C25: move_file tries rename once and first; it copies at most once and
\* only after rename failed with EXDEV, compares at most once and only after
\* the copy succeeded, deletes the source at most once and only after the
\* comparison succeeded; no step follows a failed one, and a failed copy
\* ends the call with the copy's error code and the source as it was.
C25_MoveFileOrder ==
    call.op = "move_file" =>
        /\ Steps("rename") = {1}
        /\ Cardinality(Steps("copied")) <= 1
        /\ Cardinality(Steps("compare")) <= 1
        /\ Cardinality(SrcDeletes) <= 1
        /\ \A i \in Steps("copied") :
              /\ ~call.ev[1].ok /\ call.ev[1].x
              /\ ~call.ev[i].ok =>
                    /\ i = Len(call.ev)
                    /\ ~call.ev[i - 1].ok
                    /\ call.res = FailCode(call.ev[i - 1].op)
                    /\ SrcUntouched
        /\ (call.ev[1].ok \/ ~call.ev[1].x) => Len(call.ev) = 1
        /\ \A i \in Steps("compare") :
              /\ \E j \in Steps("copied") : j < i /\ call.ev[j].ok
              /\ ~call.ev[i].ok => SrcDeletes = {} /\ call.res = ERROR_MOVE_FAILED
        /\ \A i \in SrcDeletes :
              /\ i = Len(call.ev)
              /\ \E j \in Steps("compare") : j < i /\ call.ev[j].ok

\* a fallback copy failed while reading the source
C25_Witness ==
    /\ call.op = "move_file"
    /\ call.res = ERROR_FILE_READ
    /\ Steps("copied") # {}
    /\ SrcWasFile

\* ------------------------------------------------------------------------
\* The source of copy_file
\* ------------------------------------------------------------------------
\* C26: copy_file never changes the content or the size of its source file,
\* whatever the destination is, the source itself and the directory that
\* holds the source included.
C26_SourceUnchanged ==
    (call.op = "copy_file" /\ SrcWasFile) =>
        /\ Key(call.src) \in DOMAIN fs
        /\ fs[Key(call.src)].data = call.pre[Key(call.src)].data

\* ------------------------------------------------------------------------
\* Directory copies into the source tree
\* ------------------------------------------------------------------------
pSD == <<"s", "/", "d">>

\* destinations inside the source s (s/b may exist, s/d does not) and outside
InsideArgs == {pSB, pSD, pD}

InitInside ==
    /\ fs \in InitFS
    /\ xdev = FALSE
    /\ char_signed = TRUE
    /\ call = NoCall

CopyDirectoryInside ==
    /\ call = NoCall
    /\ \E dest \in InsideArgs, rf \in 0..MaxRdFail, up \in BOOLEAN :
         \E r \in {copy_directory(World(rf, up), pS, dest)} :
            Done("copy_directory", pS, dest, rf, r)

CopyDirectoryFilteredInside ==
    /\ call = NoCall
    /\ \E dest \in InsideArgs, rf \in 0..MaxRdFail, f \in FilterArgs, sp \in BOOLEAN :
         \E r \in {copy_directory_filtered(World(rf, TRUE), pS, dest, f.inc, f.exc, sp)} :
            DoneFiltered("copy_directory_filtered", pS, dest, rf, f, sp, r)

NextInside == CopyDirectoryInside \/ CopyDirectoryFilteredInside

SpecInside == InitInside /\ [][NextInside]_vars

\* the directories the call opened to enumerate them
Listed == {i \in 1..Len(call.ev) : call.ev[i].op = "opendir" /\ call.ev[i].ok}

\* C27: copy_directory and copy_directory_filtered enumerate directories of
\* the source tree as it was before the call only, each at most once, and
\* never go on until a path is too deep to be created, also when the
\* destination lies inside the source.
C27_VisitsSourceTreeOnce ==
    (IsTreeCopy /\ SrcWasDir) =>
        /\ \A i \in Listed :
              /\ Key(call.ev[i].p) \in DOMAIN call.pre
              /\ call.pre[Key(call.ev[i].p)].k = "dir"
              /\ IsPrefix(Key(call.src), Key(call.ev[i].p))
        /\ \A i, j \in Listed : call.ev[i].p = call.ev[j].p => i = j
        /\ \A i \in 1..Len(call.ev) :
              call.ev[i].op = "mkdir" => Len(Key(call.ev[i].p)) <= MaxDepth

\* ------------------------------------------------------------------------
\* create_directory on its own
\* ------------------------------------------------------------------------
pRoot == <<"/">>

pSs == <<"s", "/">>

\* the root, directories with and without a trailing slash, a regular file,
\* paths that may or may not exist, and a path below a missing directory
MkdirArgs == {pRoot, pS, pSs, pSA, pSB, pDA, pDBs, pDC, pAbsDCA}

InitMkdir ==
    /\ fs \in InitFS
    /\ xdev = FALSE
    /\ char_signed = TRUE
    /\ call = NoCall

CreateDirectory ==
    /\ call = NoCall
    /\ \E path \in MkdirArgs :
         \E r \in {create_directory(World(0, TRUE), path)} :
            Done("create_directory", path, path, 0, r)

NextMkdir == CreateDirectory

SpecMkdir == InitMkdir /\ [][NextMkdir]_vars

\* the path of the call named a directory before the call
PathWasDir == is_directory(PreWorld, call.src)

\* C28: when create_directory returns SUCCESS its path is a directory; on a
\* path that is a directory already, the root and paths with a trailing
\* slash included, it returns SUCCESS and changes nothing.
C28_CreateDirectoryResult ==
    call.op = "create_directory" =>
        /\ call.res = SUCCESS => is_directory(NowWorld, call.src)
        /\ PathWasDir => call.res = SUCCESS /\ fs = call.pre

\* ------------------------------------------------------------------------
\* remove_directory on trees with a symbolic link
\* ------------------------------------------------------------------------
pSL == <<"s", "/", "l">>

\* the trees of InitFS, and the same trees with a link s/l to the directory d
LinkTrees == InitFS \cup {(Key(pSL) :> LinkNode(Key(pD))) @@ t : t \in InitFS}

InitRemove ==
    /\ fs \in LinkTrees
    /\ xdev = FALSE
    /\ char_signed = TRUE
    /\ call = NoCall

RemoveDirectory ==
    /\ call = NoCall
    /\ \E path \in {pS, pSB, pD, pSA}, up \in BOOLEAN :
         \E r \in {remove_directory(World(0, up), path)} :
            Done("remove_directory", path, path, 0, r)

NextRemove == RemoveDirectory

SpecRemove == InitRemove /\ [][NextRemove]_vars

\* C29: remove_directory(path) deletes nothing outside the tree rooted at
\* path: every file and directory that is not at or under path is there
\* after the call as it was before, also when the tree holds a symbolic
\* link to a directory elsewhere.
C29_RemovesOnlyUnderPath ==
    call.op = "remove_directory" =>
        \A q \in DOMAIN call.pre :
            ~IsPrefix(Key(call.src), q) => q \in DOMAIN fs /\ fs[q] = call.pre[q]

\* ------------------------------------------------------------------------
\* Sequences of filtered copies on one statistics block
\* ------------------------------------------------------------------------
\* copy everything, or everything but the files named a
StatsFilters ==
    { [inc |-> NullPatterns, exc |-> NullPatterns],
      [inc |-> NullPatterns, exc |-> Patterns(<<pA>>)] }

\* no call yet; init_stats has run at time 0
InitStats ==
    /\ fs \in {(Key(pSC) :> FileNode(<<2>>, MODE_FILE_CREATE)) @@ t :
                 t \in {u \in InitFS : /\ Key(pSB) \in DOMAIN u
                                       /\ Writable(u, Key(pSB))
                                       /\ Key(pDB) \notin DOMAIN u}}
    /\ xdev = FALSE
    /\ char_signed = TRUE
    /\ call = [op |-> "init_stats", res |-> SUCCESS, n |-> 0,
               stats0 |-> World(0, TRUE).stats, stats |-> World(0, TRUE).stats]

\* the world of the next call: the clock reads tick, the block is the one
\* the calls before have left
WorldStats(rf, tick) == [World(rf, TRUE) EXCEPT !.now = tick, !.stats = call.stats]

DoneStats(op, r) ==
    /\ fs' = r.w.fs
    /\ call' = [op |-> op, res |-> r.res, n |-> call.n + 1,
                stats0 |-> call.stats, stats |-> r.w.stats]
    /\ UNCHANGED <<xdev, char_signed>>

NextCopyFileFiltered ==
    /\ call.n < MaxCalls
    /\ \E src \in {pSA, pC}, dest \in {pDA, pD}, rf \in 0..1,
          f \in StatsFilters, tick \in 0..MaxTick :
         \E r \in {copy_file_filtered(WorldStats(rf, tick), src, dest, f.inc, f.exc, TRUE)} :
            DoneStats("copy_file_filtered", r)

NextCopyTreeFiltered ==
    /\ call.n < MaxCalls
    /\ \E dest \in {pD, pDC}, rf \in {0, 1, MaxRdFail}, f \in StatsFilters,
          tick \in 0..MaxTick :
         \E r \in {copy_directory_filtered(WorldStats(rf, tick), pS, dest, f.inc, f.exc, TRUE)} :
            DoneStats("copy_directory_filtered", r)

NextStats == NextCopyFileFiltered \/ NextCopyTreeFiltered

SpecStats == InitStats /\ [][NextStats]_vars

\* the four counters of a statistics block
Counters(st) == <<st.total_files, st.total_dirs, st.total_bytes, st.copied_bytes>>

\* C30: from init_stats on, after every copy_file_filtered and
\* copy_directory_filtered call on the same block, failed calls included,
\* copied_bytes = total_bytes, no counter is negative, none is lower than
\* before the call, and estimate_time_remaining returns 0.
C30_StatsInvariant ==
    /\ call.stats.copied_bytes = call.stats.total_bytes
    /\ \A i \in 1..4 :
          /\ Counters(call.stats)[i] >= 0
          /\ Counters(call.stats)[i] >= Counters(call.stats0)[i]
    /\ estimate_time_remaining(call.stats) = 0

\* the second call on a block failed after it had counted bytes, and the
\* block holds a positive speed
C30_Witness ==
    /\ call.n = 2
    /\ call.res # SUCCESS
    /\ call.stats.total_bytes > call.stats0.total_bytes
    /\ call.stats0.total_bytes > 0
    /\ call.stats.transfer_speed[1] > 0

====
